---- MODULE Spec2Model ----
(***************************************************************************)
(* Model of the dev-terminal server (src/src/index.ts, second revision,    *)
(* lines 349-841) and of its terminal backends (src/src/backend.ts).       *)
(*                                                                         *)
(* The server keeps a registry  name -> TerminalEntry.  Every entry owns a *)
(* backend (a local pty process or an ssh shell channel).  Request         *)
(* handlers, backend callbacks and observer (WebSocket) events run one at  *)
(* a time on the event loop: each is one action here.  The only handler    *)
(* that suspends is POST /terminals with ssh options, which awaits         *)
(* SshPtyBackend.create: it is split at the await.                         *)
(*                                                                         *)
(* Optional values (exitCode?, pid?) are sets with at most one element:    *)
(* {} is "undefined".  Strings of terminal data are sequences of           *)
(* one-character strings.                                                  *)
(***************************************************************************)
EXTENDS Integers, Sequences, FiniteSets, TLC

(* ------------------------------ bounds --------------------------------- *)

\* Number of backend objects the server constructs in one run.
MaxBackends == 2

\* Longest timeout a wait is called with, in units of time.
MaxTimeout == 2

\* MAX_BUFFER_SIZE (src/src/index.ts:403) is 100000; the model scales the
\* scrollback bound down so that overflowing it is within reach.
MAX_BUFFER_SIZE == 2

\* Longest chunk one data event delivers.
MaxChunk == 3

\* Data events are cut off once the characters delivered to all entries
\* (since their creation or last clear) exceed the scrollback bound by this.
MaxOverflow == 1

(* --------------------------- program constants ------------------------- *)

DEFAULT_COLS == 120
DEFAULT_ROWS == 40

\* The longest name a create request may carry (line 459).
MAX_NAME_LENGTH == 256

\* Session names requests use.  "" is the name the validation rejects.
Names == {"a", "b"}

\* Characters of terminal output.
Chars == {"x", "y"}

\* Observer (WebSocket) connections.
Observers == {"o1"}

\* The geometry a create or resize request carries; {} when it carries none.
SomeSize == [cols |-> 80, rows |-> 24]
DefaultSize == [cols |-> DEFAULT_COLS, rows |-> DEFAULT_ROWS]
SizeInputs == {{}, {SomeSize}}

BackendIds == 1..MaxBackends

\* All chunks of 1..MaxChunk characters.
Chunks == UNION {[1..n -> Chars] : n \in 1..MaxChunk}

(* ------------------------------ state ---------------------------------- *)

VARIABLES
    registry,    \* Map<string, TerminalEntry>: <<name, entry id>> in insertion order
    entries,     \* the TerminalEntry objects ever made, by id of their backend
    backends,    \* the backend objects ever constructed, by id
    pending,     \* create requests suspended at `await SshPtyBackend.create`
    wsClients,   \* Set<WebSocket> of connected observers
    cleaningUp,  \* the cleaningUp flag of cleanup()
    last,        \* what the latest handler or callback did: response and effects
    stream,      \* history: data delivered to an entry since creation or clear
    firstExit,   \* history: the exit code of the first exit callback of an entry
    heard,       \* history: by observer and name, the data of the data messages
                 \* the observer was sent under the name since the latest of: its
                 \* connection, a creation, a close or a clear of the name
    waiter       \* a client's call of waitForText or waitForExit: its
                 \* arguments, its position in the loop and the time since it
                 \* started

vars == <<registry, entries, backends, pending, wsClients, cleaningUp, last,
          stream, firstExit, heard, waiter>>

\* A plausible slip: the readyState test of broadcast() never passes.
RecipientsNone(bcast) == {}

\* broadcast() (lines 416-423): a message goes to every client of wsClients
\* whose connection is open; a connection is in wsClients from its
\* "connection" event to its "close" event.
Recipients(bcast) == IF bcast = << >> THEN {} ELSE wsClients

\* The record of a step: the operation, its target, the HTTP status (0 for a
\* callback), the response body, the broadcast() calls in order, the
\* observers they were sent to, the messages sent to one observer alone in
\* order, and the backend methods called (at most one on each backend).  req
\* keeps the geometry asked for by a create request that found its name in
\* the registry, and the body of a write request or of an input message.
Did(op, name, status, resp, bcast, sent, calls) ==
    [op |-> op, name |-> name, status |-> status, resp |-> resp,
     bcast |-> bcast, to |-> Recipients(bcast), sent |-> sent, calls |-> calls,
     req |-> {}]

\* A call of a method of backend b, or of its connection.
Call(b, method, arg) == [b |-> b, method |-> method, arg |-> arg]

\* A response body: error is the text of its error field, "" when it has none.
NoResp == [error |-> ""]
Err(message) == [error |-> message]

(* ------------------------ the registry (a Map) ------------------------- *)

Keys(reg) == [i \in 1..Len(reg) |-> reg[i].name]

\* Map.get: the id of the entry stored for name, 0 when there is none.
RegistryGet(reg, name) ==
    IF \E i \in 1..Len(reg) : reg[i].name = name
    THEN reg[CHOOSE i \in 1..Len(reg) : reg[i].name = name].id
    ELSE 0

\* Map.set: a new key goes last, an existing key keeps its place.
RegistrySet(reg, name, id) ==
    IF \E i \in 1..Len(reg) : reg[i].name = name
    THEN [i \in 1..Len(reg) |->
             IF reg[i].name = name THEN [name |-> name, id |-> id] ELSE reg[i]]
    ELSE Append(reg, [name |-> name, id |-> id])

\* A plausible slip: the key is not removed.
RegistryDeleteSkipped(reg, name) == reg

\* Map.delete.
RegistryDelete(reg, name) ==
    LET keep(e) == e.name # name IN SelectSeq(reg, keep)

Get(name) == RegistryGet(registry, name)
Present(name) == Get(name) # 0
Entry(name) == entries[Get(name)]

(* --------------------------- pure functions ---------------------------- *)

\* slice(-n) of a string or an array: the last n elements; everything when
\* n is 0 (slice(-0) is slice(0)); all but the first -n elements when n is
\* negative.
SliceLast(s, n) ==
    IF n = 0 \/ n >= Len(s) THEN s
    ELSE IF n < 0 THEN SubSeq(s, 1 - n, Len(s))
    ELSE SubSeq(s, Len(s) - n + 1, Len(s))

\* The line break, and an element that stands for one complete escape
\* sequence (such as ESC [ 0 m).
LineBreak == "\n"
EscapeSequence == "ESC[0m"

\* stripAnsi (line 647): the text without its escape sequences.
StripAnsi(raw) ==
    LET plain(c) == c # EscapeSequence IN SelectSeq(raw, plain)

\* text.split("\n") (line 651): the pieces between the line breaks, one more
\* than there are line breaks.
RECURSIVE SplitLines(_)
SplitLines(text) ==
    IF \A i \in 1..Len(text) : text[i] # LineBreak THEN << text >>
    ELSE LET i == CHOOSE k \in 1..Len(text) :
                      /\ text[k] = LineBreak
                      /\ \A j \in 1..(k - 1) : text[j] # LineBreak
         IN  << SubSeq(text, 1, i - 1) >> \o SplitLines(SubSeq(text, i + 1, Len(text)))

\* Lines 651-653: the last rows * 3 lines of the text.
SnapshotLines(text, rows) == SliceLast(SplitLines(text), rows * 3)

\* A plausible slip: keep the oldest characters.
TrimKeepOldest(buffer) ==
    IF Len(buffer) > MAX_BUFFER_SIZE THEN SubSeq(buffer, 1, MAX_BUFFER_SIZE)
    ELSE buffer

\* The trim of the onData callback.
TrimBuffer(buffer) ==
    IF Len(buffer) > MAX_BUFFER_SIZE THEN SliceLast(buffer, MAX_BUFFER_SIZE)
    ELSE buffer

(* ------------------------------ backends ------------------------------- *)

\* Local pty process:  running -> killed -> exited,  running -> exited.
\* Ssh backend: connecting -> shellreq -> open -> (killed ->) streamclosed
\*              -> closed;  connecting/shellreq -> failed.
NewBackend(kind, st, name) == [kind |-> kind, st |-> st, name |-> name]

\* get pid(): the process id of a local backend, undefined for ssh.
Pid(b) == IF backends[b].kind = "local" THEN {b} ELSE {}

\* backend.kill(): LocalPtyBackend signals the process, SshPtyBackend ends
\* the stream and the connection.  On a backend already dead it changes
\* nothing (the handlers swallow what it throws).
Killed(bk) ==
    IF bk.kind = "local" /\ bk.st = "running" THEN [bk EXCEPT !.st = "killed"]
    ELSE IF bk.kind = "ssh" /\ bk.st = "open" THEN [bk EXCEPT !.st = "killed"]
    ELSE bk

\* The backend's process or channel still produces output.
Emitting(bk) ==
    \/ bk.kind = "local" /\ bk.st \in {"running", "killed"}
    \/ bk.kind = "ssh" /\ bk.st \in {"open", "killed"}

\* kill() was called on the backend, or it is dead already.
Terminated(bk) ==
    bk.st \in {"killed", "exited", "streamclosed", "closed", "failed"}

\* The backend's process has exited, or its channel has closed.
Dead(bk) == bk.st \in {"exited", "streamclosed", "closed"}

\* A plausible slip: kill() is called outside the try block.
KillEscapesUncaught(raised) == raised

\* try { entry.backend.kill() } catch { } (index.ts 562-566, 809-813):
\* whether an exception raised by kill() leaves the block.  The catch has no
\* condition and its body is empty.
KillEscapes(raised) == FALSE

\* The states of an ssh backend whose shell channel was opened.
ShellOpened == {"open", "killed", "streamclosed", "closed"}

\* The states of an ssh backend whose shell channel has closed.
ChannelClosed == {"streamclosed", "closed"}

\* this.stream of an ssh backend (backend.ts 101): null until the shell
\* callback stores the channel (line 160); no statement sets it to null
\* again.
StreamSet(bk) == bk.kind = "ssh" /\ bk.st \in ShellOpened

\* backend.write(data) (backend.ts 74-76, 205-209): the calls it makes on
\* the pty process or on the shell channel.
BackendWriteCalls(b, data) ==
    IF backends[b].kind = "local" THEN {Call(b, "ptyProcess.write", data)}
    ELSE IF StreamSet(backends[b]) THEN {Call(b, "stream.write", data)}
    ELSE {}

(* ------------------------ what observers hear ------------------------- *)

\* The data of the data messages for name among msgs, in order.
RECURSIVE HeardFrom(_, _)
HeardFrom(msgs, name) ==
    IF msgs = << >> THEN << >>
    ELSE (IF Head(msgs).type = "data" /\ Head(msgs).name = name
          THEN Head(msgs).data ELSE << >>) \o HeardFrom(Tail(msgs), name)

\* What the observers have heard under name once msgs were sent to the
\* observers of the set to.
HeardAfter(name, msgs, to) ==
    [o \in Observers |->
        IF o \in to
        THEN [heard[o] EXCEPT ![name] = @ \o HeardFrom(msgs, name)]
        ELSE heard[o]]

\* What the observers have heard under name starts again.
HeardReset(name) ==
    [o \in Observers |->
        [n \in Names |-> IF n = name THEN << >> ELSE heard[o][n]]]

(* ------------------------- the client's waits -------------------------- *)

\* The interval option of the waits, in units of time.
PollInterval == 1

\* No wait was called.  at is the position of the call: idle, check (at the
\* head of the loop), request (a snapshot request is on its way), sleep
\* (until wakeAt), done.  elapsed is Date.now() - start, polls the number of
\* snapshot requests sent, result what the call returned, code the exit
\* code waitForExit returned.  appeared is history: the text was in the
\* session's text at some moment of the wait before the timeout elapsed.
Idle ==
    [at |-> "idle", kind |-> "", name |-> "", text |-> << >>, timeout |-> 0,
     elapsed |-> 0, wakeAt |-> 0, polls |-> 0, result |-> "", code |-> {},
     appeared |-> FALSE]

\* text.includes(part) (client.ts 186).
Includes(text, part) ==
    \E i \in 0..(Len(text) - Len(part)) : SubSeq(text, i + 1, i + Len(part)) = part

\* The waiter after the buffer of entry b has become buffer.
Watched(b, buffer) ==
    IF /\ waiter.at \notin {"idle", "done"} /\ waiter.kind = "text"
       /\ RegistryGet(registry, waiter.name) = b
       /\ waiter.elapsed < waiter.timeout
       /\ Includes(StripAnsi(buffer), waiter.text)
    THEN [waiter EXCEPT !.appeared = TRUE]
    ELSE waiter

(* -------------------------------- Init --------------------------------- *)

Init ==
    /\ registry = << >>
    /\ entries = << >>
    /\ backends = << >>
    /\ pending = {}
    /\ wsClients = {}
    /\ cleaningUp = FALSE
    /\ last = Did("init", "", 0, NoResp, << >>, << >>, {})
    /\ stream = << >>
    /\ firstExit = << >>
    /\ heard = [o \in Observers |-> [n \in Names |-> << >>]]
    /\ waiter = Idle

(* ------------------------- POST /terminals ----------------------------- *)

\* The id of the next backend object.
NextId == Len(backends) + 1

NewEntry(name, size) ==
    [name |-> name, buffer |-> << >>, alive |-> TRUE, exitCode |-> {},
     size |-> size]

CreatedMsg(name, size) == [type |-> "created", name |-> name, size |-> size]

\* Lines 504-545: the entry is made around the new backend b, its callbacks
\* are registered, registry.set(name, entry), the created event is
\* broadcast and the response carries the backend's pid and the size.
Install(b, kind, name, size) ==
    /\ entries' = entries @@ (b :> NewEntry(name, size))
    /\ stream' = stream @@ (b :> << >>)
    /\ firstExit' = firstExit @@ (b :> << >>)
    /\ heard' = HeardReset(name)
    /\ UNCHANGED waiter
    /\ registry' = RegistrySet(registry, name, b)
    /\ last' = Did(IF kind = "local" THEN "create" ELSE "create_resumed",
                   name, 200,
                   [error |-> "", pid |-> IF kind = "local" THEN {b} ELSE {},
                    size |-> size],
                   << CreatedMsg(name, size) >>, << >>, {})

\* A plausible slip: a create request for an existing name starts the
\* session again.
ReturnExistingRevived(name, size) ==
    /\ entries' = [entries EXCEPT ![Get(name)].alive = TRUE,
                                  ![Get(name)].exitCode = {}]
    /\ last' = [Did("create", name, 200,
                    [error |-> "", pid |-> Pid(Get(name)),
                     size |-> Entry(name).size],
                    << >>, << >>, {}) EXCEPT !.req = {size}]
    /\ UNCHANGED <<registry, backends, pending, wsClients, cleaningUp,
                   stream, firstExit, heard, waiter>>

\* A plausible slip: the request's geometry is merged into the existing entry.
ReturnExistingMerged(name, size) ==
    /\ entries' = [entries EXCEPT ![Get(name)].size = size]
    /\ last' = [Did("create", name, 200,
                    [error |-> "", pid |-> Pid(Get(name)), size |-> size],
                    << >>, << >>, {}) EXCEPT !.req = {size}]
    /\ UNCHANGED <<registry, backends, pending, wsClients, cleaningUp,
                   stream, firstExit, heard, waiter>>

\* Lines 464-474: the name is in the registry; the entry is returned as it
\* is.  size is the geometry of the request, which the branch does not read.
ReturnExisting(name, size) ==
    /\ last' = [Did("create", name, 200,
                    [error |-> "", pid |-> Pid(Get(name)),
                     size |-> Entry(name).size],
                    << >>, << >>, {}) EXCEPT !.req = {size}]
    /\ UNCHANGED <<registry, entries, backends, pending, wsClients, cleaningUp,
                   stream, firstExit, heard, waiter>>

\* Lines 454-457: a missing, non-string or empty name.
RejectName(name) ==
    /\ last' = Did("create", name, 400, Err("name is required and must be a string"), << >>, << >>, {})
    /\ UNCHANGED <<registry, entries, backends, pending, wsClients, cleaningUp,
                   stream, firstExit, heard, waiter>>

\* A plausible slip: the length test lets every name through.
NameTooLongNever(name) == FALSE

\* Line 459: name.length === 0 || name.length > 256, for a string that is
\* not empty.
NameTooLong(name) == Len(name) = 0 \/ Len(name) > MAX_NAME_LENGTH

\* Lines 459-462: a name longer than MAX_NAME_LENGTH.
RejectNameLength(name) ==
    /\ last' = Did("create", name, 400, Err("name must be 1-256 characters"), << >>, << >>, {})
    /\ UNCHANGED <<registry, entries, backends, pending, wsClients, cleaningUp,
                   stream, firstExit, heard, waiter>>

\* A plausible slip: the created event is announced although construction
\* failed.
CreateFailedAnnounced(op, name, cause, calls) ==
    /\ last' = Did(op, name, 500,
                   [error |-> "Failed to create terminal", cause |-> cause],
                   << CreatedMsg(name, DefaultSize) >>, << >>, calls)
    /\ UNCHANGED <<registry, entries, stream, firstExit, heard, waiter>>

\* Lines 546-549: construction threw or rejected; the catch answers 500
\* with "Failed to create terminal: " and the message of the cause.  calls
\* are the calls the failed construction made on its connection.
CreateFailed(op, name, cause, calls) ==
    /\ last' = Did(op, name, 500,
                   [error |-> "Failed to create terminal", cause |-> cause],
                   << >>, << >>, calls)
    /\ UNCHANGED <<registry, entries, stream, firstExit, heard, waiter>>

\* POST /terminals up to its response or to the await of the ssh branch.
\* size is the request's geometry ({} when absent), ssh tells whether the
\* body has ssh options, spawnOk whether pty.spawn succeeds.
PostTerminals(name, size, ssh, spawnOk) ==
    /\ ~cleaningUp
    /\ LET termSize == IF size = {} THEN DefaultSize ELSE CHOOSE s \in size : TRUE
       IN  IF name = "" THEN RejectName(name)
           ELSE IF NameTooLong(name) THEN RejectNameLength(name)
           ELSE IF Present(name) THEN ReturnExisting(name, termSize)
           ELSE IF ssh THEN
               /\ NextId <= MaxBackends
               /\ backends' = Append(backends, NewBackend("ssh", "connecting", name))
               /\ pending' = pending \cup {[b |-> NextId, name |-> name, size |-> termSize]}
               /\ last' = Did("create_await", name, 0, NoResp, << >>, << >>, {})
               /\ UNCHANGED <<registry, entries, wsClients, cleaningUp, stream, firstExit, heard, waiter>>
           ELSE IF spawnOk THEN
               /\ NextId <= MaxBackends
               /\ backends' = Append(backends, NewBackend("local", "running", name))
               /\ Install(NextId, "local", name, termSize)
               /\ UNCHANGED <<pending, wsClients, cleaningUp>>
           ELSE
               /\ CreateFailed("create", name, "spawn", {})
               /\ UNCHANGED <<backends, pending, wsClients, cleaningUp>>

\* The name of a create request is a string, or is missing or a value of
\* another type.
NameInputs(names) ==
    {[isString |-> TRUE, name |-> n] : n \in names} \cup {[isString |-> FALSE, name |-> ""]}

\* POST /terminals with any body: line 454 refuses a name that is not a
\* string (typeof name !== "string") before the name is read as one.
PostTerminalsBody(body, size, ssh, spawnOk) ==
    IF body.isString THEN PostTerminals(body.name, size, ssh, spawnOk)
    ELSE ~cleaningUp /\ RejectName("")

\* conn "ready": the shell channel is requested.
SshReady(b) ==
    /\ b \in DOMAIN backends
    /\ backends[b].kind = "ssh" /\ backends[b].st = "connecting"
    /\ backends' = [backends EXCEPT ![b].st = "shellreq"]
    /\ last' = Did("ssh_ready", backends[b].name, 0, NoResp, << >>, << >>, {})
    /\ UNCHANGED <<registry, entries, pending, wsClients, cleaningUp, stream, firstExit, heard, waiter>>

\* The shell callback without error: the stream is kept, connect resolves and
\* the suspended handler runs on from line 504 before any other event (the
\* step is recorded as create_resumed).
SshShellOpened(b) ==
    /\ b \in DOMAIN backends
    /\ backends[b].kind = "ssh" /\ backends[b].st = "shellreq"
    /\ \E p \in pending :
          /\ p.b = b
          /\ pending' = pending \ {p}
          /\ backends' = [backends EXCEPT ![b].st = "open"]
          /\ Install(b, "ssh", p.name, p.size)
    /\ UNCHANGED <<wsClients, cleaningUp>>

\* A plausible slip: a shell callback with an error is taken for an open
\* channel, and the backend is returned.
SshFailedReturned(b, shell) ==
    /\ b \in DOMAIN backends
    /\ backends[b].kind = "ssh" /\ backends[b].st \in {"connecting", "shellreq"}
    /\ shell => backends[b].st = "shellreq"
    /\ \E p \in pending :
          /\ p.b = b
          /\ pending' = pending \ {p}
          /\ backends' = [backends EXCEPT ![b].st = "failed"]
          /\ IF shell THEN Install(b, "ssh", p.name, p.size)
             ELSE CreateFailed("create_resumed", p.name, "SSH connection failed", {})
    /\ UNCHANGED <<wsClients, cleaningUp>>

\* Construction fails (backend.ts 153-158, 187-189) and the handler's catch
\* answers 500.  shell: the shell callback reports an error once the
\* connection is ready; conn.end() is called and connect rejects.
\* Otherwise: conn "error" before the shell is open; connect rejects.
SshFailed(b, shell) ==
    /\ b \in DOMAIN backends
    /\ backends[b].kind = "ssh" /\ backends[b].st \in {"connecting", "shellreq"}
    /\ shell => backends[b].st = "shellreq"
    /\ \E p \in pending :
          /\ p.b = b
          /\ pending' = pending \ {p}
          /\ backends' = [backends EXCEPT ![b].st = "failed"]
          /\ IF shell
             THEN CreateFailed("create_resumed", p.name, "Failed to start shell",
                               {Call(b, "end", << >>)})
             ELSE CreateFailed("create_resumed", p.name, "SSH connection failed", {})
    /\ UNCHANGED <<wsClients, cleaningUp>>

\* conn "close" (backend.ts 191-195) while connect is still pending, before
\* the connection is ready or before the shell callback has run: the
\* handler only calls exitCallback, which is null until the create request
\* resumes, so the promise of connect is neither resolved nor rejected.
\* Whether the connection announces an error before it closes is decided
\* by the ssh2 library; this is the close that no error precedes.
SshConnLost(b) ==
    /\ b \in DOMAIN backends
    /\ backends[b].kind = "ssh" /\ backends[b].st \in {"connecting", "shellreq"}
    /\ backends' = [backends EXCEPT ![b].st = "lost"]
    /\ last' = Did("ssh_lost", backends[b].name, 0, NoResp, << >>, << >>, {})
    /\ UNCHANGED <<registry, entries, pending, wsClients, cleaningUp, stream,
                   firstExit, heard, waiter>>

(* -------------------------- backend callbacks -------------------------- *)

DataMsg(name, data) == [type |-> "data", name |-> name, data |-> data]

\* A plausible slip: the chunk is put in front of the buffer.
OnDataPrepending(b, data) ==
    /\ entries' = [entries EXCEPT ![b].buffer = TrimBuffer(data \o @)]
    /\ stream' = [stream EXCEPT ![b] = @ \o data]
    /\ last' = Did("data", entries[b].name, 0, NoResp,
                   << DataMsg(entries[b].name, data) >>, << >>, {})
    /\ heard' = HeardAfter(entries[b].name, << DataMsg(entries[b].name, data) >>,
                           Recipients(<< DataMsg(entries[b].name, data) >>))
    /\ waiter' = Watched(b, entries'[b].buffer)
    /\ UNCHANGED <<registry, firstExit>>

\* A plausible slip: the callbacks of all sessions share one buffer.
OnDataShared(b, data) ==
    /\ entries' = [c \in DOMAIN entries |->
                      [entries[c] EXCEPT !.buffer = TrimBuffer(@ \o data)]]
    /\ stream' = [stream EXCEPT ![b] = @ \o data]
    /\ last' = Did("data", entries[b].name, 0, NoResp,
                   << DataMsg(entries[b].name, data) >>, << >>, {})
    /\ heard' = HeardAfter(entries[b].name, << DataMsg(entries[b].name, data) >>,
                           Recipients(<< DataMsg(entries[b].name, data) >>))
    /\ waiter' = Watched(b, entries'[b].buffer)
    /\ UNCHANGED <<registry, firstExit>>

\* Lines 514-524, the onData callback of entry b: append, trim, broadcast.
OnData(b, data) ==
    /\ entries' = [entries EXCEPT ![b].buffer = TrimBuffer(@ \o data)]
    /\ stream' = [stream EXCEPT ![b] = @ \o data]
    /\ last' = Did("data", entries[b].name, 0, NoResp,
                   << DataMsg(entries[b].name, data) >>, << >>, {})
    /\ heard' = HeardAfter(entries[b].name, << DataMsg(entries[b].name, data) >>,
                           Recipients(<< DataMsg(entries[b].name, data) >>))
    /\ waiter' = Watched(b, entries'[b].buffer)
    /\ UNCHANGED <<registry, firstExit>>

RECURSIVE SumLen(_, _)
SumLen(f, ids) ==
    IF ids = {} THEN 0
    ELSE LET b == CHOOSE x \in ids : TRUE IN Len(f[b]) + SumLen(f, ids \ {b})

\* Characters delivered to all entries since their creation or last clear.
Delivered == SumLen(stream, DOMAIN stream)

\* The pty process, or the ssh stream (stdout and stderr alike), delivers a
\* chunk of output.
BackendData(b, data) ==
    /\ b \in DOMAIN entries
    /\ Emitting(backends[b])
    /\ Delivered + Len(data) <= MAX_BUFFER_SIZE + MaxOverflow
    /\ OnData(b, data)
    /\ UNCHANGED <<backends, pending, wsClients, cleaningUp>>

ExitMsg(name, exitCode) ==
    [type |-> "closed", name |-> name, exitCode |-> exitCode]

\* A plausible slip: the exit callback also drops the session.
OnExitRemoving(b, exitCode) ==
    /\ entries' = [entries EXCEPT ![b].alive = FALSE, ![b].exitCode = exitCode]
    /\ firstExit' = [firstExit EXCEPT ![b] = IF @ = << >> THEN << exitCode >> ELSE @]
    /\ registry' = RegistryDelete(registry, entries[b].name)
    /\ last' = Did("exit", entries[b].name, 0, NoResp,
                   << ExitMsg(entries[b].name, exitCode) >>, << >>, {})
    /\ UNCHANGED <<stream, heard, waiter>>

\* Lines 527-533, the onExit callback of entry b.
OnExit(b, exitCode) ==
    /\ entries' = [entries EXCEPT ![b].alive = FALSE, ![b].exitCode = exitCode]
    /\ firstExit' = [firstExit EXCEPT ![b] = IF @ = << >> THEN << exitCode >> ELSE @]
    /\ last' = Did("exit", entries[b].name, 0, NoResp,
                   << ExitMsg(entries[b].name, exitCode) >>, << >>, {})
    /\ UNCHANGED <<registry, stream, heard, waiter>>

\* The pty process exits, on its own or after kill(), with a numeric code.
LocalExit(b, code) ==
    /\ b \in DOMAIN entries
    /\ backends[b].kind = "local" /\ backends[b].st \in {"running", "killed"}
    /\ backends' = [backends EXCEPT ![b].st = "exited"]
    /\ OnExit(b, {code})
    /\ UNCHANGED <<pending, wsClients, cleaningUp>>

\* stream "close" (backend.ts 168-173): exitCallback(0), then conn.end().
SshStreamClose(b) ==
    /\ b \in DOMAIN entries
    /\ backends[b].kind = "ssh" /\ backends[b].st \in {"open", "killed"}
    /\ backends' = [backends EXCEPT ![b].st = "streamclosed"]
    /\ OnExit(b, {0})
    /\ UNCHANGED <<pending, wsClients, cleaningUp>>

\* conn "close" (backend.ts 191-195): exitCallback() without a code.
SshConnClose(b) ==
    /\ b \in DOMAIN entries
    /\ backends[b].kind = "ssh" /\ backends[b].st = "streamclosed"
    /\ backends' = [backends EXCEPT ![b].st = "closed"]
    /\ OnExit(b, {})
    /\ UNCHANGED <<pending, wsClients, cleaningUp>>

(* --------------------------- request handlers -------------------------- *)

\* A plausible slip: the closed event is announced for a name that is not
\* registered.
NotFoundAnnounced(op, name) ==
    /\ last' = Did(op, name, 404, Err("terminal not found"),
                   << [type |-> "closed", name |-> name] >>, << >>, {})
    /\ UNCHANGED <<registry, entries, backends, pending, wsClients, cleaningUp,
                   stream, firstExit, heard, waiter>>

\* Lines 557-560, 577-580, 609-612, 640-643, 709-712: the name is not in the
\* registry.
NotFound(op, name) ==
    /\ last' = Did(op, name, 404, Err("terminal not found"), << >>, << >>, {})
    /\ UNCHANGED <<registry, entries, backends, pending, wsClients, cleaningUp,
                   stream, firstExit, heard, waiter>>

\* GET /terminals (lines 442-447).
ListTerminals ==
    /\ ~cleaningUp
    /\ last' = Did("list", "", 200,
                   [error |-> "", terminals |-> Keys(registry)],
                   << >>, << >>, {})
    /\ UNCHANGED <<registry, entries, backends, pending, wsClients, cleaningUp,
                   stream, firstExit, heard, waiter>>

\* DELETE /terminals/:name (lines 553-570).  raised tells whether kill()
\* raises, which only a backend already dead does; req keeps the backends
\* whose kill() raised.
DeleteTerminalWith(name, raised) ==
    /\ ~cleaningUp
    /\ IF ~Present(name) THEN ~raised /\ NotFound("close", name)
       ELSE /\ raised => Dead(backends[Get(name)])
            /\ IF KillEscapes(raised)
               THEN /\ last' = [Did("close", name, 500, Err("Internal Server Error"),
                                     << >>, << >>, {Call(Get(name), "kill", << >>)})
                                 EXCEPT !.req = {Get(name)}]
                    /\ UNCHANGED <<registry, entries, backends, pending, wsClients,
                                   cleaningUp, stream, firstExit, heard, waiter>>
               ELSE /\ backends' = [backends EXCEPT ![Get(name)] = Killed(@)]
                    /\ registry' = RegistryDelete(registry, name)
                    /\ last' = [Did("close", name, 200, NoResp,
                                     << [type |-> "closed", name |-> name] >>, << >>,
                                     {Call(Get(name), "kill", << >>)})
                                 EXCEPT !.req = IF raised THEN {Get(name)} ELSE {}]
                    /\ heard' = HeardReset(name)
                    /\ UNCHANGED waiter
                    /\ UNCHANGED <<entries, pending, wsClients, cleaningUp, stream, firstExit>>

\* DELETE /terminals/:name where kill() returns.
DeleteTerminal(name) == DeleteTerminalWith(name, FALSE)

\* The body of a write request: a string, or a value of another type.
WriteInputs ==
    {[isString |-> TRUE, data |-> << >>], [isString |-> TRUE, data |-> << "k" >>],
     [isString |-> FALSE, data |-> << >>]}

\* A plausible slip: the liveness check is left out.
MayWriteAlways(entry) == TRUE

\* Line 590: a write goes through only while the entry is alive.
MayWrite(entry) == entry.alive

\* POST /terminals/:name/write (lines 573-602).
WriteTerminal(name, body) ==
    /\ ~cleaningUp
    /\ IF ~Present(name) THEN NotFound("write", name)
       ELSE /\ last' =
                 [IF ~body.isString
                  THEN Did("write", name, 400, Err("data must be a string"),
                           << >>, << >>, {})
                  ELSE IF ~MayWrite(Entry(name))
                  THEN Did("write", name, 400, Err("terminal has exited"),
                           << >>, << >>, {})
                  ELSE Did("write", name, 200,
                           [error |-> "", bytesWritten |-> Len(body.data)],
                           << >>, << >>, {Call(Get(name), "write", body.data)})
                  EXCEPT !.req = body]
            /\ UNCHANGED <<registry, entries, backends, pending, wsClients,
                           cleaningUp, stream, firstExit, heard, waiter>>

\* write(data) is called on the backend object b by whoever holds it.
BackendWrite(b, data) ==
    /\ b \in DOMAIN backends
    /\ last' = Did("backend_write", backends[b].name, 0, NoResp, << >>, << >>,
                   BackendWriteCalls(b, data))
    /\ UNCHANGED <<registry, entries, backends, pending, wsClients, cleaningUp,
                   stream, firstExit, heard, waiter>>

(* ------------------------- the client's key() ------------------------- *)

\* SpecialKeys (backend.ts 326-372): the sequence of character codes of
\* every key name.
SpecialKeys ==
    ("up" :> << 27, 91, 65 >>) @@ ("down" :> << 27, 91, 66 >>) @@
    ("right" :> << 27, 91, 67 >>) @@ ("left" :> << 27, 91, 68 >>) @@
    ("enter" :> << 13 >>) @@ ("tab" :> << 9 >>) @@ ("escape" :> << 27 >>) @@
    ("backspace" :> << 127 >>) @@ ("delete" :> << 27, 91, 51, 126 >>) @@
    ("ctrl+c" :> << 3 >>) @@ ("ctrl+d" :> << 4 >>) @@ ("ctrl+z" :> << 26 >>) @@
    ("ctrl+l" :> << 12 >>) @@ ("ctrl+a" :> << 1 >>) @@ ("ctrl+e" :> << 5 >>) @@
    ("ctrl+k" :> << 11 >>) @@ ("ctrl+u" :> << 21 >>) @@ ("ctrl+w" :> << 23 >>) @@
    ("ctrl+r" :> << 18 >>) @@
    ("f1" :> << 27, 79, 80 >>) @@ ("f2" :> << 27, 79, 81 >>) @@
    ("f3" :> << 27, 79, 82 >>) @@ ("f4" :> << 27, 79, 83 >>) @@
    ("f5" :> << 27, 91, 49, 53, 126 >>) @@ ("f6" :> << 27, 91, 49, 55, 126 >>) @@
    ("f7" :> << 27, 91, 49, 56, 126 >>) @@ ("f8" :> << 27, 91, 49, 57, 126 >>) @@
    ("f9" :> << 27, 91, 50, 48, 126 >>) @@ ("f10" :> << 27, 91, 50, 49, 126 >>) @@
    ("f11" :> << 27, 91, 50, 51, 126 >>) @@ ("f12" :> << 27, 91, 50, 52, 126 >>) @@
    ("home" :> << 27, 91, 72 >>) @@ ("end" :> << 27, 91, 70 >>) @@
    ("pageup" :> << 27, 91, 53, 126 >>) @@ ("pagedown" :> << 27, 91, 54, 126 >>) @@
    ("insert" :> << 27, 91, 50, 126 >>)

\* Properties every object inherits, with the type of their value.
ObjectPrototype ==
    ("constructor" :> "function") @@ ("toString" :> "function") @@
    ("valueOf" :> "function") @@ ("__proto__" :> "object")

\* obj[keyName] (client.ts 141): the object's own property, else the
\* inherited one, else undefined.
Property(obj, keyName) ==
    IF keyName \in DOMAIN obj
    THEN [type |-> "string", chars |-> obj[keyName]]
    ELSE IF keyName \in DOMAIN ObjectPrototype
    THEN [type |-> ObjectPrototype[keyName], chars |-> << >>]
    ELSE [type |-> "undefined", chars |-> << >>]

\* !value (client.ts 142).
Falsy(value) ==
    \/ value.type = "undefined"
    \/ value.type = "string" /\ value.chars = << >>

HexDigit(n) == IF n < 10 THEN 48 + n ELSE 87 + n
FromHex(c) == IF c <= 57 THEN c - 48 ELSE c - 87

\* The short escapes of a JSON string: the escaped character code and the
\* letter that follows the backslash.
ShortEscapes ==
    (8 :> 98) @@ (9 :> 116) @@ (10 :> 110) @@ (12 :> 102) @@ (13 :> 114) @@
    (34 :> 34) @@ (92 :> 92)

\* JSON.stringify of a string (client.ts 136), without the quotes: quotes,
\* backslashes and the codes below 32 are escaped.
RECURSIVE JsonStringify(_)
JsonStringify(chars) ==
    IF chars = << >> THEN << >>
    ELSE LET c == Head(chars)
         IN  (IF c \in DOMAIN ShortEscapes THEN << 92, ShortEscapes[c] >>
              ELSE IF c < 32
              THEN << 92, 117, 48, 48, HexDigit(c \div 16), HexDigit(c % 16) >>
              ELSE << c >>) \o JsonStringify(Tail(chars))

\* JSON.parse of the text of a string (express.json, index.ts 426).
RECURSIVE JsonParse(_)
JsonParse(text) ==
    IF text = << >> THEN << >>
    ELSE IF Head(text) # 92 THEN << Head(text) >> \o JsonParse(Tail(text))
    ELSE IF text[2] = 117
    THEN << 4096 * FromHex(text[3]) + 256 * FromHex(text[4])
              + 16 * FromHex(text[5]) + FromHex(text[6]) >>
         \o JsonParse(SubSeq(text, 7, Len(text)))
    ELSE << CHOOSE c \in DOMAIN ShortEscapes : ShortEscapes[c] = text[2] >>
         \o JsonParse(SubSeq(text, 3, Len(text)))

\* The body the write handler receives when the client sends
\* JSON.stringify({ data: value }): a string arrives as the string; a
\* function is left out of the text and an object arrives as an object, so
\* data is not a string then.
BodyReceived(value) ==
    IF value.type = "string"
    THEN [isString |-> TRUE, data |-> JsonParse(JsonStringify(value.chars))]
    ELSE [isString |-> FALSE, data |-> << >>]

\* Line 623: entry.size = { cols, rows }.
StoreSize(name, sz) == [entries EXCEPT ![Get(name)].size = sz]

\* backend.resize (backend.ts 78-80, 211-217) throws or returns.
\* LocalPtyBackend passes the call to the pty, which refuses a geometry that
\* is not positive and whose descriptor is closed once the process has
\* exited (resizeOk tells whether the call returns then); SshPtyBackend only
\* stores the geometry and signals the channel.
ResizeThrows(bk, sz, resizeOk) ==
    /\ bk.kind = "local"
    /\ \/ sz.cols <= 0 \/ sz.rows <= 0
       \/ bk.st = "exited" /\ ~resizeOk

\* POST /terminals/:name/resize (lines 605-631).  size is {} when cols or
\* rows is not a number.  The handler does not catch: when backend.resize
\* throws, lines 623-630 do not run and the framework answers 500.
ResizeTerminal(name, size, resizeOk) ==
    /\ ~cleaningUp
    /\ IF ~Present(name) THEN NotFound("resize", name)
       ELSE IF size = {}
       THEN /\ last' = Did("resize", name, 400, Err("cols and rows must be numbers"), << >>, << >>, {})
            /\ UNCHANGED <<registry, entries, backends, pending, wsClients,
                           cleaningUp, stream, firstExit, heard, waiter>>
       ELSE IF ResizeThrows(backends[Get(name)], CHOOSE x \in size : TRUE, resizeOk)
       THEN /\ last' = [Did("resize", name, 500, Err("Internal Server Error"),
                             << >>, << >>,
                             {Call(Get(name), "resize", CHOOSE x \in size : TRUE)})
                         EXCEPT !.req = size]
            /\ UNCHANGED <<registry, entries, backends, pending, wsClients,
                           cleaningUp, stream, firstExit, heard, waiter>>
       ELSE LET sz == CHOOSE x \in size : TRUE
            IN  /\ entries' = StoreSize(name, sz)
                /\ last' = [Did("resize", name, 200, [error |-> "", size |-> sz],
                                << [type |-> "resized", name |-> name, size |-> sz] >>,
                                << >>, {Call(Get(name), "resize", sz)})
                            EXCEPT !.req = size]
                /\ UNCHANGED <<registry, backends, pending, wsClients, cleaningUp,
                               stream, firstExit, heard, waiter>>

\* Lines 646 and 692-700: the fields of the snapshot response read from the
\* entry.
SnapshotOf(entry) ==
    [error |-> "", text |-> StripAnsi(entry.buffer), raw |-> entry.buffer,
     lines |-> SnapshotLines(StripAnsi(entry.buffer), entry.size.rows),
     size |-> entry.size, alive |-> entry.alive, exitCode |-> entry.exitCode]

\* A plausible slip: the snapshot hands the buffer over and starts it again.
SnapshotTerminalDraining(name) ==
    /\ ~cleaningUp
    /\ IF ~Present(name) THEN NotFound("snapshot", name)
       ELSE /\ last' = Did("snapshot", name, 200, SnapshotOf(Entry(name)),
                           << >>, << >>, {})
            /\ entries' = [entries EXCEPT ![Get(name)].buffer = << >>]
            /\ UNCHANGED <<registry, backends, pending, wsClients,
                           cleaningUp, stream, firstExit, heard, waiter>>

\* GET /terminals/:name/snapshot (lines 636-702).
SnapshotTerminal(name) ==
    /\ ~cleaningUp
    /\ IF ~Present(name) THEN NotFound("snapshot", name)
       ELSE /\ last' = Did("snapshot", name, 200, SnapshotOf(Entry(name)),
                           << >>, << >>, {})
            /\ UNCHANGED <<registry, entries, backends, pending, wsClients,
                           cleaningUp, stream, firstExit, heard, waiter>>

\* The longest of the lines without their escape sequences, at least 1
\* (line 675).
RECURSIVE MaxLineLength(_)
MaxLineLength(rawLines) ==
    IF rawLines = << >> THEN 1
    ELSE LET n == Len(StripAnsi(Head(rawLines)))
             m == MaxLineLength(Tail(rawLines))
         IN  IF n > m THEN n ELSE m

\* Lines 661-685: the picture of the last rows lines of the raw buffer.
\* html stands for what ansi_to_html makes of these lines; width and height
\* are in tenths of a pixel.
Rasterize(raw, rows) ==
    LET visibleLines == SliceLast(SplitLines(raw), rows)
    IN  [html |-> visibleLines,
         width |-> MaxLineLength(visibleLines) * 84 + 200,
         height |-> Len(visibleLines) * 180 + 200]

\* A plausible slip: the rendering is not inside a try block.
RenderSurvivedIfOk(rendered) == rendered

\* try { ... } catch (lines 658-689): the handler goes on after the
\* rendering, whether it returned or raised.
RenderSurvived(rendered) == TRUE

\* req.query.format || "json" (line 645).
FormatOf(query) == IF query = "" THEN "json" ELSE query

\* GET /terminals/:name/snapshot?format=query (lines 636-702).  rendered
\* tells whether the rendering returns; when it raises, svg stays undefined
\* and the response, as JSON, has no svg field.  req keeps the format and
\* whether the rendering returned.
SnapshotTerminalAs(name, query, rendered) ==
    /\ ~cleaningUp
    /\ FormatOf(query) # "svg" => rendered
    /\ IF ~Present(name) THEN NotFound("snapshot", name)
       ELSE /\ last' =
                 [IF FormatOf(query) = "svg" /\ ~RenderSurvived(rendered)
                  THEN Did("snapshot", name, 500, Err("Internal Server Error"),
                           << >>, << >>, {})
                  ELSE IF FormatOf(query) = "svg" /\ rendered
                  THEN Did("snapshot", name, 200,
                           SnapshotOf(Entry(name)) @@
                               [svg |-> Rasterize(Entry(name).buffer,
                                                  Entry(name).size.rows)],
                           << >>, << >>, {})
                  ELSE Did("snapshot", name, 200, SnapshotOf(Entry(name)),
                           << >>, << >>, {})
                  EXCEPT !.req = [format |-> FormatOf(query), rendered |-> rendered]]
            /\ UNCHANGED <<registry, entries, backends, pending, wsClients,
                           cleaningUp, stream, firstExit, heard, waiter>>

\* A plausible slip: the buffers of all sessions are emptied.
ClearTerminalAll(name) ==
    /\ ~cleaningUp
    /\ IF ~Present(name) THEN NotFound("clear", name)
       ELSE /\ entries' = [b \in DOMAIN entries |-> [entries[b] EXCEPT !.buffer = << >>]]
            /\ stream' = [b \in DOMAIN stream |-> << >>]
            /\ heard' = HeardReset(name)
            /\ UNCHANGED waiter
            /\ last' = Did("clear", name, 200, NoResp, << >>, << >>, {})
            /\ UNCHANGED <<registry, backends, pending, wsClients, cleaningUp,
                           firstExit>>

\* POST /terminals/:name/clear (lines 705-716).
ClearTerminal(name) ==
    /\ ~cleaningUp
    /\ IF ~Present(name) THEN NotFound("clear", name)
       ELSE /\ entries' = [entries EXCEPT ![Get(name)].buffer = << >>]
            /\ stream' = [stream EXCEPT ![Get(name)] = << >>]
            /\ heard' = HeardReset(name)
            /\ UNCHANGED waiter
            /\ last' = Did("clear", name, 200, NoResp, << >>, << >>, {})
            /\ UNCHANGED <<registry, backends, pending, wsClients, cleaningUp,
                           firstExit>>

\* Terminal.key(keyName) of the client's terminal for name (client.ts
\* 140-146): an unknown key throws before any request; otherwise write()
\* posts the sequence to the write handler.  req keeps the key name.
ClientKey(name, keyName) ==
    LET sequence == Property(SpecialKeys, keyName)
    IN  IF Falsy(sequence)
        THEN /\ last' = [Did("key", name, 0, Err("Unknown key"), << >>, << >>, {})
                         EXCEPT !.req = [key |-> keyName]]
             /\ UNCHANGED <<registry, entries, backends, pending, wsClients,
                            cleaningUp, stream, firstExit, heard, waiter>>
        ELSE WriteTerminal(name, [isString |-> BodyReceived(sequence).isString,
                                  data |-> BodyReceived(sequence).data,
                                  key |-> keyName])

(* ---------------------- names in request paths ------------------------ *)

\* The names the client's calls are made with, and their character codes:
\* plain names, a name with a slash, and names with a percent sign.
NameCodes ==
    ("a" :> << 97 >>) @@ ("A" :> << 65 >>) @@ ("a/b" :> << 97, 47, 98 >>) @@
    ("%41" :> << 37, 52, 49 >>) @@ ("100%" :> << 49, 48, 48, 37 >>)

\* The string of a sequence of character codes; "" (which names no
\* session) for a sequence that is none of the names above.
StringOf(codes) ==
    IF \E n \in DOMAIN NameCodes : NameCodes[n] = codes
    THEN CHOOSE n \in DOMAIN NameCodes : NameCodes[n] = codes
    ELSE ""

\* The characters encodeURIComponent leaves as they are: letters, digits
\* and - _ . ! ~ * ' ( ).
Unreserved ==
    (48..57) \cup (65..90) \cup (97..122) \cup {45, 95, 46, 33, 126, 42, 39, 40, 41}

UpperHexDigit(n) == IF n < 10 THEN 48 + n ELSE 55 + n

\* encodeURIComponent(name) (client.ts 134, 158, 164, 175, 239) of a string
\* of characters below 128: every other character becomes %XX.
RECURSIVE EncodeURIComponent(_)
EncodeURIComponent(codes) ==
    IF codes = << >> THEN << >>
    ELSE LET c == Head(codes)
         IN  (IF c \in Unreserved THEN << c >>
              ELSE << 37, UpperHexDigit(c \div 16), UpperHexDigit(c % 16) >>)
             \o EncodeURIComponent(Tail(codes))

IsHex(c) == c \in (48..57) \cup (65..70) \cup (97..102)
HexValue(c) == IF c <= 57 THEN c - 48 ELSE IF c <= 70 THEN c - 55 ELSE c - 87

\* decodeURIComponent(text) (index.ts 554, 574, 606, 637, 706): every %XX
\* becomes the character of that code (below 128 here); a percent sign that
\* two hexadecimal digits do not follow makes it throw URIError (ok is
\* FALSE then).
RECURSIVE DecodeURIComponent(_)
DecodeURIComponent(text) ==
    IF text = << >> THEN [ok |-> TRUE, codes |-> << >>]
    ELSE IF Head(text) # 37
    THEN LET rest == DecodeURIComponent(Tail(text))
         IN  [ok |-> rest.ok, codes |-> << Head(text) >> \o rest.codes]
    ELSE IF Len(text) >= 3 /\ IsHex(text[2]) /\ IsHex(text[3])
    THEN LET rest == DecodeURIComponent(SubSeq(text, 4, Len(text)))
         IN  [ok |-> rest.ok,
              codes |-> << 16 * HexValue(text[2]) + HexValue(text[3]) >> \o rest.codes]
    ELSE [ok |-> FALSE, codes |-> << >>]

\* req.params.name: the router has decoded the path segment once before
\* the handler runs.
RouteParam(segment) == DecodeURIComponent(segment).codes

\* The handler of the route of op runs for the name it has decoded.
Handle(op, name) ==
    CASE op = "snapshot" -> SnapshotTerminal(name)
      [] op = "write" -> WriteTerminal(name, [isString |-> TRUE, data |-> << "k" >>])
      [] op = "resize" -> ResizeTerminal(name, {SomeSize}, TRUE)
      [] op = "clear" -> ClearTerminal(name)
      [] op = "close" -> DeleteTerminal(name)

\* The client's terminal for name calls op: the request path carries
\* encodeURIComponent(name), the router decodes the segment, and the
\* handler applies decodeURIComponent to what it receives.  When that
\* throws, the handler ends and the framework answers 500.
ClientCall(op, name) ==
    LET segment == EncodeURIComponent(NameCodes[name])
        decoded == DecodeURIComponent(RouteParam(segment))
    IN  IF decoded.ok THEN Handle(op, StringOf(decoded.codes))
        ELSE /\ ~cleaningUp
             /\ last' = Did(op, name, 500, Err("Internal Server Error"),
                            << >>, << >>, {})
             /\ UNCHANGED <<registry, entries, backends, pending, wsClients,
                            cleaningUp, stream, firstExit, heard, waiter>>

\* The variables of the server and its histories stay as they are.
ServerUnchanged ==
    UNCHANGED <<registry, entries, backends, pending, wsClients, cleaningUp,
                stream, firstExit, heard>>

\* A plausible slip: a wait that times out closes its session.
LoopHeadCancelling(w) ==
    IF w.elapsed < w.timeout
    THEN /\ waiter' = [w EXCEPT !.at = "request", !.polls = @ + 1]
         /\ last' = Did("wait_poll", w.name, 0, NoResp, << >>, << >>, {})
         /\ ServerUnchanged
    ELSE /\ waiter' = [w EXCEPT !.at = "done",
                                !.result = IF w.kind = "text" THEN "false"
                                           ELSE "undefined"]
         /\ last' = Did("wait_done", w.name, 0, NoResp, << >>, << >>, {})
         /\ registry' = RegistryDelete(registry, w.name)
         /\ UNCHANGED <<entries, backends, pending, wsClients, cleaningUp,
                        stream, firstExit, heard>>

\* The head of the loop (client.ts 184, 199) of the wait w: while
\* Date.now() - start < timeout a snapshot request is sent; otherwise the
\* call returns false (waitForText) or undefined (waitForExit).
LoopHead(w) ==
    IF w.elapsed < w.timeout
    THEN /\ waiter' = [w EXCEPT !.at = "request", !.polls = @ + 1]
         /\ last' = Did("wait_poll", w.name, 0, NoResp, << >>, << >>, {})
         /\ ServerUnchanged
    ELSE /\ waiter' = [w EXCEPT !.at = "done",
                                !.result = IF w.kind = "text" THEN "false"
                                           ELSE "undefined"]
         /\ last' = Did("wait_done", w.name, 0, NoResp, << >>, << >>, {})
         /\ ServerUnchanged

\* terminal.waitForText(text, {timeout, interval}) or
\* terminal.waitForExit({timeout, interval}) is called on the client's
\* terminal for name (client.ts 180-185, 195-200): start = Date.now(), and
\* the loop is entered at once.
WaitStart(kind, name, text, timeout) ==
    /\ waiter.at = "idle"
    /\ LoopHead([Idle EXCEPT !.kind = kind, !.name = name, !.text = text,
                             !.timeout = timeout])

\* The sleep of the interval is over (client.ts 189, 204) and the loop is
\* entered again.
WaitPoll ==
    /\ waiter.at = "sleep" /\ waiter.elapsed >= waiter.wakeAt
    /\ LoopHead(waiter)

\* The answer to GET /terminals/:name/snapshot (lines 636-702).
SnapshotResult(name) ==
    IF ~Present(name)
    THEN Did("snapshot", name, 404, Err("terminal not found"), << >>, << >>, {})
    ELSE Did("snapshot", name, 200, SnapshotOf(Entry(name)), << >>, << >>, {})

\* The snapshot request of the wait is served and the loop runs on (client.ts
\* 185-189, 200-204): the call returns true when the text is in snap.text,
\* or the exit code when the session is not alive; otherwise it sleeps for
\* the interval.  A request the server refuses (404), or that finds the
\* server closed, makes apiFetch throw, and the call rejects.
WaitSnapshot ==
    /\ waiter.at = "request"
    /\ IF cleaningUp
       THEN /\ last' = Did("wait_done", waiter.name, 0, Err("fetch failed"), << >>, << >>, {})
            /\ waiter' = [waiter EXCEPT !.at = "done", !.result = "error"]
       ELSE /\ last' = SnapshotResult(waiter.name)
            /\ waiter' =
                 IF last'.status # 200
                 THEN [waiter EXCEPT !.at = "done", !.result = "error"]
                 ELSE IF waiter.kind = "text" /\ Includes(last'.resp.text, waiter.text)
                 THEN [waiter EXCEPT !.at = "done", !.result = "true"]
                 ELSE IF waiter.kind = "exit" /\ ~last'.resp.alive
                 THEN [waiter EXCEPT !.at = "done", !.result = "exited",
                                     !.code = last'.resp.exitCode]
                 ELSE [waiter EXCEPT !.at = "sleep",
                                     !.wakeAt = waiter.elapsed + PollInterval]
    /\ ServerUnchanged

\* Time passes during a wait.  (Nothing depends on the time once it is past
\* the timeout and the end of the sleep.)
Tick ==
    /\ waiter.at \notin {"idle", "done"}
    /\ \/ waiter.elapsed < waiter.timeout
       \/ waiter.at = "sleep" /\ waiter.elapsed < waiter.wakeAt
    /\ waiter' = [waiter EXCEPT !.elapsed = @ + 1]
    /\ UNCHANGED last
    /\ ServerUnchanged

(* ------------------------------ observers ------------------------------ *)

\* A plausible slip: buffers are sent for live sessions only.
BufferedMsgsLive(reg) ==
    LET live(e) == entries[e.id].buffer # << >> /\ entries[e.id].alive
        kept == SelectSeq(reg, live)
    IN  [i \in 1..Len(kept) |-> DataMsg(kept[i].name, entries[kept[i].id].buffer)]

\* Lines 741-745: one data message for each entry with a non-empty buffer,
\* in the registry's order.
BufferedMsgs(reg) ==
    LET nonEmpty(e) == entries[e.id].buffer # << >>
        kept == SelectSeq(reg, nonEmpty)
    IN  [i \in 1..Len(kept) |-> DataMsg(kept[i].name, entries[kept[i].id].buffer)]

\* wss "connection" (lines 730-745).
WsConnect(o) ==
    /\ ~cleaningUp
    /\ o \notin wsClients
    /\ wsClients' = wsClients \cup {o}
    /\ LET sent == << [type |-> "terminals",
                        terminals |-> [i \in 1..Len(registry) |->
                                         [name |-> registry[i].name,
                                          size |-> entries[registry[i].id].size]]] >>
                    \o BufferedMsgs(registry)
       IN  /\ last' = Did("ws_connect", "", 0, NoResp, << >>, sent, {})
           /\ heard' = [heard EXCEPT ![o] = [n \in Names |-> HeardFrom(sent, n)]]
           /\ UNCHANGED waiter
    /\ UNCHANGED <<registry, entries, backends, pending, cleaningUp, stream, firstExit>>

\* ws "message" (lines 748-760) with an input message for name.
WsMessage(o, name, data) ==
    /\ o \in wsClients
    /\ last' = [Did("ws_input", name, 0, NoResp, << >>, << >>,
                    IF name # "" /\ data # << >> /\ Present(name) /\ Entry(name).alive
                    THEN {Call(Get(name), "write", data)} ELSE {})
                EXCEPT !.req = [isString |-> TRUE, data |-> data]]
    /\ UNCHANGED <<registry, entries, backends, pending, wsClients, cleaningUp,
                   stream, firstExit, heard, waiter>>

\* ws "close" (lines 762-764).
WsClose(o) ==
    /\ o \in wsClients
    /\ wsClients' = wsClients \ {o}
    /\ last' = Did("ws_close", "", 0, NoResp, << >>, << >>, {})
    /\ heard' = [heard EXCEPT ![o] = [n \in Names |-> << >>]]
    /\ UNCHANGED waiter
    /\ UNCHANGED <<registry, entries, backends, pending, cleaningUp, stream, firstExit>>

(* ------------------------------- shutdown ------------------------------ *)

RegisteredIds == {registry[i].id : i \in 1..Len(registry)}

\* The statements of cleanup() in the order of lines 794-817: close the
\* observers' connections and the WebSocket server, destroy the HTTP
\* connections, kill the backends, clear the registry, close the server.
Sweep == << "observers", "connections", "backends", "registry", "server" >>

\* A plausible slip: cleanup() has no guard.
AlreadyCleaningNever == FALSE

\* Line 789: cleanup() has run before; nothing sets cleaningUp back.
AlreadyCleaning == cleaningUp

\* cleanup() (lines 788-819), run by stop() or by a termination signal, has
\* no await: observers closed, every registered backend killed, the registry
\* cleared, the server closed, in one run.  A second call returns at once.
\* raising are the backends whose kill() raises (backends already dead); an
\* exception that left the try block would end the run at that backend.
CleanupWith(raising) ==
    IF AlreadyCleaning
    THEN /\ raising = {}
         /\ last' = Did("cleanup", "", 0, NoResp, << >>, << >>, {})
         /\ UNCHANGED <<registry, entries, backends, pending, wsClients, cleaningUp,
                        stream, firstExit, heard, waiter>>
    ELSE LET escaped == {i \in 1..Len(registry) :
                            KillEscapes(registry[i].id \in raising)}
             reached == IF escaped = {} THEN Len(registry)
                        ELSE CHOOSE i \in escaped : \A j \in escaped : i <= j
             called == {registry[i].id : i \in 1..reached}
         IN  /\ raising \subseteq {b \in RegisteredIds : Dead(backends[b])}
             /\ cleaningUp' = TRUE
             /\ wsClients' = {}
             /\ heard' = [o \in Observers |-> [n \in Names |-> << >>]]
             /\ UNCHANGED waiter
             /\ backends' = [b \in DOMAIN backends |->
                               IF b \in called THEN Killed(backends[b])
                               ELSE backends[b]]
             /\ registry' = IF escaped = {} THEN << >> ELSE registry
             /\ last' = [Did("cleanup", "", 0,
                             [error |-> "",
                              sweep |-> IF escaped = {} THEN Sweep
                                        ELSE SubSeq(Sweep, 1, 2)],
                             << >>, << >>,
                             {Call(b, "kill", << >>) : b \in called})
                         EXCEPT !.req = raising]
             /\ UNCHANGED <<entries, pending, stream, firstExit>>

\* A plausible slip: the sweep stops after the observers, and the backends
\* and the registry are left to a later turn of the event loop.
CleanupPartial ==
    IF cleaningUp
    THEN /\ last' = Did("cleanup", "", 0, NoResp, << >>, << >>, {})
         /\ UNCHANGED <<registry, entries, backends, pending, wsClients, cleaningUp,
                        stream, firstExit, heard, waiter>>
    ELSE /\ cleaningUp' = TRUE
         /\ wsClients' = {}
         /\ heard' = [o \in Observers |-> [n \in Names |-> << >>]]
         /\ UNCHANGED waiter
         /\ last' = Did("cleanup", "", 0,
                        [error |-> "", sweep |-> SubSeq(Sweep, 1, 2)],
                        << >>, << >>, {})
         /\ UNCHANGED <<registry, backends, entries, pending, stream, firstExit>>

\* cleanup() where every kill() returns.
Cleanup == CleanupWith({})

(* --------------------------- the specification ------------------------- *)

\* A request for a name among names; a create request carries a geometry
\* among sizes.
Request(names, sizes) ==
    \/ PostTerminals("", {}, FALSE, TRUE)
    \/ \E name \in names, size \in sizes : PostTerminals(name, size, TRUE, TRUE)
    \/ \E name \in names, size \in sizes, spawnOk \in BOOLEAN :
          PostTerminals(name, size, FALSE, spawnOk)
    \/ ListTerminals
    \/ \E name \in names : DeleteTerminal(name)
    \/ \E name \in names, body \in WriteInputs : WriteTerminal(name, body)
    \/ \E name \in names, size \in SizeInputs, resizeOk \in BOOLEAN :
          ResizeTerminal(name, size, resizeOk)
    \/ \E name \in names : SnapshotTerminal(name)
    \/ \E name \in names : ClearTerminal(name)

\* An event of a backend: a step of an ssh construction (one that fails
\* does so with a connection error before the connection is ready and at
\* the shell channel after), a data event
\* (while fewer than cap characters were delivered), an exit (a local
\* process with a code among codes).
BackendEvent(cap, codes) ==
    \/ \E b \in BackendIds : SshReady(b)
    \/ \E b \in BackendIds : SshShellOpened(b)
    \/ \E b \in DOMAIN backends : SshFailed(b, backends[b].st = "shellreq")
    \/ \E b \in BackendIds : Delivered < cap /\ BackendData(b, << "x" >>)
    \/ \E b \in BackendIds, code \in codes : LocalExit(b, code)
    \/ \E b \in BackendIds : SshStreamClose(b)
    \/ \E b \in BackendIds : SshConnClose(b)

\* An event of an observer connection.
ObserverEvent(names) ==
    \/ \E o \in Observers : WsConnect(o)
    \/ \E o \in Observers, name \in names, data \in {<< >>, << "k" >>} :
          WsMessage(o, name, data)
    \/ \E o \in Observers : WsClose(o)

\* The server with requests for one name and no observer.
Next ==
    \/ Request({"a"}, SizeInputs)
    \/ BackendEvent(1, {1})
    \/ Cleanup

Spec == Init /\ [][Next]_vars

\* The server with requests for two names, each session created with the
\* default geometry, and an observer.
NextPair ==
    \/ Request(Names, {{}})
    \/ BackendEvent(1, {1})
    \/ ObserverEvent(Names)
    \/ Cleanup

SpecPair == Init /\ [][NextPair]_vars

\* The buffers of the sessions of one name, local and ssh, under every
\* sequence of chunks and clears, up to MaxOverflow characters beyond the
\* scrollback bound.
NextBuffer ==
    \/ \E ssh \in BOOLEAN : PostTerminals("a", {}, ssh, TRUE)
    \/ \E b \in BackendIds : SshReady(b)
    \/ \E b \in BackendIds : SshShellOpened(b)
    \/ \E b \in BackendIds, data \in Chunks : BackendData(b, data)
    \/ ClearTerminal("a")

SpecBuffer == Init /\ [][NextBuffer]_vars

\* The sessions of one name, local and ssh, and an observer: every order of
\* one-character chunks (up to one character beyond the scrollback bound),
\* exits, resizes, clears, closes, and connections and disconnections of the
\* observer, with one backend fewer than MaxBackends.
NextObserver ==
    \/ \E ssh \in BOOLEAN :
          NextId < MaxBackends /\ PostTerminals("a", {}, ssh, TRUE)
    \/ \E b \in BackendIds : SshReady(b)
    \/ \E b \in BackendIds : SshShellOpened(b)
    \/ \E b \in BackendIds, c \in Chars :
          Delivered <= MAX_BUFFER_SIZE /\ BackendData(b, << c >>)
    \/ \E b \in BackendIds : LocalExit(b, 1)
    \/ \E b \in BackendIds : SshStreamClose(b)
    \/ \E b \in BackendIds : SshConnClose(b)
    \/ DeleteTerminal("a")
    \/ ResizeTerminal("a", {SomeSize}, TRUE)
    \/ ClearTerminal("a")
    \/ \E o \in Observers : WsConnect(o)
    \/ \E o \in Observers : WsClose(o)

SpecObserver == Init /\ [][NextObserver]_vars

\* Output with line breaks and escape sequences, and geometries of no row
\* and of one row.
SnapshotChars == {"x", LineBreak, EscapeSequence}
SnapshotSizes == {{[cols |-> 80, rows |-> 0]}, {[cols |-> 80, rows |-> 1]}}

\* The snapshots of the sessions of one name, local and ssh, created and
\* resized with the geometries of SnapshotSizes, under every sequence of
\* one-character chunks of SnapshotChars up to one character beyond the
\* scrollback bound.
NextSnapshot ==
    \/ \E size \in SnapshotSizes, ssh \in BOOLEAN :
          NextId < MaxBackends /\ PostTerminals("a", size, ssh, TRUE)
    \/ \E b \in BackendIds : SshReady(b)
    \/ \E b \in BackendIds : SshShellOpened(b)
    \/ \E b \in BackendIds, c \in SnapshotChars :
          Delivered <= MAX_BUFFER_SIZE /\ BackendData(b, << c >>)
    \/ \E size \in SnapshotSizes : ResizeTerminal("a", size, TRUE)
    \/ SnapshotTerminal("a")

SpecSnapshot == Init /\ [][NextSnapshot]_vars

\* Two local sessions side by side, with the default geometry: every order
\* of one-character chunks (up to the scrollback bound in all), exits, and
\* requests for the two names.
NextSessions ==
    \/ \E name \in Names : PostTerminals(name, {}, FALSE, TRUE)
    \/ \E b \in BackendIds :
          Delivered < MAX_BUFFER_SIZE /\ BackendData(b, << "x" >>)
    \/ \E b \in BackendIds : LocalExit(b, 1)
    \/ \E name \in Names : DeleteTerminal(name)
    \/ \E name \in Names :
          WriteTerminal(name, [isString |-> TRUE, data |-> << "k" >>])
    \/ \E name \in Names : ResizeTerminal(name, {SomeSize}, TRUE)
    \/ \E name \in Names : SnapshotTerminal(name)
    \/ \E name \in Names : ClearTerminal(name)

SpecSessions == Init /\ [][NextSessions]_vars

\* A name of MAX_NAME_LENGTH characters and a name of one more.
Name64 == "aaaaaaaaaaaaaaaaaaaaaaaaaaaaaaaaaaaaaaaaaaaaaaaaaaaaaaaaaaaaaaaa"
FullName == Name64 \o Name64 \o Name64 \o Name64
LongName == FullName \o "a"

\* The names create requests carry, and the names registered by them.
CreateNames == {"", "a", FullName, LongName}
ValidNames == {"a", FullName}

\* Create requests with every kind of name, the sessions they make and
\* close requests for them.
NextNames ==
    \/ \E body \in NameInputs(CreateNames), ssh \in BOOLEAN :
          PostTerminalsBody(body, {}, ssh, TRUE)
    \/ \E b \in BackendIds : SshReady(b)
    \/ \E b \in BackendIds : SshShellOpened(b)
    \/ \E b \in BackendIds, shell \in BOOLEAN : SshFailed(b, shell)
    \/ \E b \in BackendIds : LocalExit(b, 1)
    \/ ListTerminals
    \/ \E name \in ValidNames : DeleteTerminal(name)

SpecNames == Init /\ [][NextNames]_vars

\* The sessions of one name, local and ssh, with one backend fewer than
\* MaxBackends, under every request for the name with every kind of body,
\* the refused ones included.
NextFailures ==
    \/ \E body \in NameInputs({"", "a", LongName}), ssh \in BOOLEAN :
          NextId < MaxBackends /\ PostTerminalsBody(body, {}, ssh, TRUE)
    \/ \E b \in BackendIds : SshReady(b)
    \/ \E b \in BackendIds : SshShellOpened(b)
    \/ \E b \in BackendIds :
          Delivered < MAX_BUFFER_SIZE /\ BackendData(b, << "x" >>)
    \/ \E b \in BackendIds : LocalExit(b, 1)
    \/ \E b \in BackendIds : SshStreamClose(b)
    \/ DeleteTerminal("a")
    \/ \E body \in WriteInputs : WriteTerminal("a", body)
    \/ \E size \in SizeInputs : ResizeTerminal("a", size, TRUE)
    \/ SnapshotTerminal("a")
    \/ ClearTerminal("a")

SpecFailures == Init /\ [][NextFailures]_vars

\* Ssh sessions of two names: constructions that succeed, that fail at the
\* handshake and that fail at the shell channel, then output, close of the
\* channel and of the connection, and close requests.
NextSsh ==
    \/ \E name \in Names : PostTerminals(name, {}, TRUE, TRUE)
    \/ \E b \in BackendIds : SshReady(b)
    \/ \E b \in BackendIds : SshShellOpened(b)
    \/ \E b \in BackendIds, shell \in BOOLEAN : SshFailed(b, shell)
    \/ \E b \in BackendIds :
          Delivered < MAX_BUFFER_SIZE /\ BackendData(b, << "x" >>)
    \/ \E b \in BackendIds : SshStreamClose(b)
    \/ \E b \in BackendIds : SshConnClose(b)
    \/ ListTerminals
    \/ \E name \in Names : DeleteTerminal(name)

SpecSsh == Init /\ [][NextSsh]_vars

\* The key names a caller passes: those of the table, a name no object
\* has, and names every object inherits.
KeyNames == DOMAIN SpecialKeys \cup {"nosuchkey", "constructor", "__proto__"}

\* The keys sent to the sessions of one name, local and ssh, live, exited
\* and closed.
NextKeys ==
    \/ \E ssh \in BOOLEAN : NextId < MaxBackends /\ PostTerminals("a", {}, ssh, TRUE)
    \/ \E b \in BackendIds : SshReady(b)
    \/ \E b \in BackendIds : SshShellOpened(b)
    \/ \E b \in BackendIds : LocalExit(b, 1)
    \/ \E b \in BackendIds : SshStreamClose(b)
    \/ DeleteTerminal("a")
    \/ \E keyName \in KeyNames : ClientKey("a", keyName)

SpecKeys == Init /\ [][NextKeys]_vars

\* One wait, for the text "x" or for the exit, on the local sessions of one
\* name (one backend fewer than MaxBackends), with every timeout up to
\* MaxTimeout, while the session produces output, exits, is cleared and is
\* closed, and the server shuts down.
NextWait ==
    \/ NextId < MaxBackends /\ PostTerminals("a", {}, FALSE, TRUE)
    \/ \E b \in BackendIds :
          Delivered < MAX_BUFFER_SIZE /\ BackendData(b, << "x" >>)
    \/ \E b \in BackendIds : LocalExit(b, 1)
    \/ ClearTerminal("a")
    \/ DeleteTerminal("a")
    \/ Cleanup
    \/ \E kind \in {"text", "exit"}, timeout \in 0..MaxTimeout :
          WaitStart(kind, "a", << "x" >>, timeout)
    \/ WaitPoll
    \/ WaitSnapshot
    \/ Tick

SpecWait == Init /\ [][NextWait]_vars

\* The same, where the client's loop runs, the server answers and time
\* passes.
SpecWaitFair ==
    Init /\ [][NextWait]_vars
         /\ WF_vars(WaitPoll) /\ WF_vars(WaitSnapshot) /\ WF_vars(Tick)

\* The ssh backends of one name as objects: their construction, the events
\* of their channel and connection, kill() through a close request, and
\* write() called on them in every state.
NextBackendCalls ==
    \/ PostTerminals("a", {}, TRUE, TRUE)
    \/ \E b \in BackendIds : SshReady(b)
    \/ \E b \in BackendIds : SshShellOpened(b)
    \/ \E b \in BackendIds, shell \in BOOLEAN : SshFailed(b, shell)
    \/ \E b \in BackendIds :
          Delivered < MAX_BUFFER_SIZE /\ BackendData(b, << "x" >>)
    \/ \E b \in BackendIds : SshStreamClose(b)
    \/ \E b \in BackendIds : SshConnClose(b)
    \/ DeleteTerminal("a")
    \/ \E b \in BackendIds : BackendWrite(b, << "k" >>)

SpecBackendCalls == Init /\ [][NextBackendCalls]_vars

\* Local and ssh sessions of two names that exit, are closed and are swept
\* by the shutdown, where kill() raises on any of the backends already dead.
NextShutdown ==
    \/ \E name \in Names, ssh \in BOOLEAN : PostTerminals(name, {}, ssh, TRUE)
    \/ \E b \in BackendIds : SshReady(b)
    \/ \E b \in BackendIds : SshShellOpened(b)
    \/ \E b \in BackendIds : LocalExit(b, 1)
    \/ \E b \in BackendIds : SshStreamClose(b)
    \/ \E b \in BackendIds : SshConnClose(b)
    \/ \E name \in Names, raised \in BOOLEAN : DeleteTerminalWith(name, raised)
    \/ \E raising \in SUBSET BackendIds : CleanupWith(raising)

SpecShutdown == Init /\ [][NextShutdown]_vars

\* The format parameters of a snapshot request: none, the two formats and
\* an unknown one.
FormatInputs == {"", "json", "svg", "png"}

\* The snapshots in every format of the local sessions of one name (one
\* backend fewer than MaxBackends), with output of line breaks and escape
\* sequences, live and exited, where the rendering returns or raises.
NextRaster ==
    \/ \E size \in SnapshotSizes :
          NextId < MaxBackends /\ PostTerminals("a", size, FALSE, TRUE)
    \/ \E b \in BackendIds, c \in SnapshotChars :
          Delivered < MAX_BUFFER_SIZE /\ BackendData(b, << c >>)
    \/ \E b \in BackendIds : LocalExit(b, 1)
    \/ \E query \in FormatInputs, rendered \in BOOLEAN :
          SnapshotTerminalAs("a", query, rendered)

SpecRaster == Init /\ [][NextRaster]_vars

\* An event of the connection of ssh backend b while its construction is
\* pending.
ConnectEvent(b) ==
    \/ SshReady(b)
    \/ SshShellOpened(b)
    \/ \E shell \in BOOLEAN : SshFailed(b, shell)
    \/ SshConnLost(b)

\* The constructions of ssh sessions of two names under every sequence of
\* connection events: ready, error, close, the shell channel opened or
\* refused; then the close of the channel and of the connection, and close
\* requests.
NextConnect ==
    \/ \E name \in Names : PostTerminals(name, {}, TRUE, TRUE)
    \/ \E b \in BackendIds : ConnectEvent(b)
    \/ \E b \in BackendIds : SshStreamClose(b)
    \/ \E b \in BackendIds : SshConnClose(b)
    \/ \E name \in Names : DeleteTerminal(name)

\* The same, where every connection has its next event: the handshake ends
\* in ready, in an error (at the latest that of readyTimeout, backend.ts
\* 129) or in the close of the connection, and the shell request is
\* answered or the connection closes.
SpecConnectFair ==
    Init /\ [][NextConnect]_vars
         /\ \A b \in BackendIds : WF_vars(ConnectEvent(b))

\* The calls of the client's terminals that carry the name in the path.
PathOps == {"snapshot", "write", "resize", "clear", "close"}

\* Local sessions created under the names of NameCodes, live and exited,
\* and every call of the client's terminals for these names.
NextPaths ==
    \/ \E name \in DOMAIN NameCodes : PostTerminals(name, {}, FALSE, TRUE)
    \/ \E b \in BackendIds : LocalExit(b, 1)
    \/ \E op \in PathOps, name \in DOMAIN NameCodes : ClientCall(op, name)

SpecPaths == Init /\ [][NextPaths]_vars

(* ------------------------------- claims -------------------------------- *)

\* The last k elements of s.
Suffix(s, k) == [i \in 1..k |-> s[Len(s) - k + i]]

Min(x, y) == IF x <= y THEN x ELSE y

\* C1: after every data event (no clear in between) the buffer of an entry is
\* at most MAX_BUFFER_SIZE long and is the last min(total, MAX_BUFFER_SIZE)
\* characters of all the data delivered to it; when the total exceeds the
\* bound by one, exactly the oldest character is gone.
C1_BufferIsStreamSuffix ==
    \A b \in DOMAIN entries :
        /\ Len(entries[b].buffer) <= MAX_BUFFER_SIZE
        /\ entries[b].buffer =
               Suffix(stream[b], Min(Len(stream[b]), MAX_BUFFER_SIZE))
        /\ Len(stream[b]) = MAX_BUFFER_SIZE + 1 =>
               entries[b].buffer = Tail(stream[b])

\* A data event has pushed an entry's data one past the bound, with two
\* different characters at its ends.
C1_Witness ==
    /\ last.op = "data"
    /\ \E b \in DOMAIN entries :
          /\ Len(stream[b]) = MAX_BUFFER_SIZE + 1
          /\ stream[b][1] # stream[b][Len(stream[b])]

\* C2: for every interleaving of create requests a registry entry is never
\* overwritten by another entry while it exists, and no backend with an
\* entry keeps running without being the backend registered under its name.
C2_OneSessionPerName ==
    [][/\ \A n \in Names :
              Present(n) /\ Present(n)' => Get(n)' = Get(n)
       /\ \A b \in DOMAIN entries' :
              ~Terminated(backends'[b]) =>
                  RegistryGet(registry', entries'[b].name) = b]_vars

\* C3: a create request for a name already in the registry answers with the
\* pid and the stored size of the existing session, constructs no backend,
\* changes no field of any session, leaves the registry as it is and
\* broadcasts nothing, whatever the request carries.
C3_CreateExistingIsIdempotent ==
    [][\A n \in Names :
          Present(n) /\ last'.op = "create" /\ last'.name = n =>
              /\ last'.status = 200
              /\ last'.resp.pid = Pid(Get(n))
              /\ last'.resp.size = Entry(n).size
              /\ last'.bcast = << >>
              /\ last'.calls = {}
              /\ UNCHANGED <<registry, entries, backends, pending>>]_vars

\* A create request asking for another geometry than the session has was
\* answered from the existing session.
C3_Witness ==
    /\ last.op = "create" /\ last.status = 200 /\ last.bcast = << >>
    /\ Present(last.name)
    /\ last.req # {Entry(last.name).size}
    /\ last.resp.size = Entry(last.name).size

\* C4: a write request with string data for a session whose alive flag is
\* false is answered 400 "terminal has exited", calls no backend method and
\* changes nothing.
C4_WriteToExitedRejected ==
    [][\A n \in Names :
          /\ Present(n) /\ ~Entry(n).alive
          /\ last'.op = "write" /\ last'.name = n /\ last'.req.isString
          => /\ last'.status = 400
             /\ last'.resp.error = "terminal has exited"
             /\ last'.calls = {}
             /\ UNCHANGED <<registry, entries, backends>>]_vars

\* A write was refused on a session whose ssh channel has closed.
C4_Witness ==
    /\ last.op = "write" /\ last.resp.error = "terminal has exited"
    /\ Present(last.name)
    /\ backends[Get(last.name)].kind = "ssh"
    /\ backends[Get(last.name)].st = "closed"

\* C5: after a session's backend has exited, and while the session is in the
\* registry, a snapshot succeeds and returns the buffer as the data events
\* left it (the data delivered since the last clear, trimmed), alive = false
\* and the exit code recorded when the backend exited.
C5_SnapshotAfterExit ==
    \A n \in Names :
        /\ last.op = "snapshot" /\ last.name = n
        /\ Present(n) /\ firstExit[Get(n)] # << >>
        => /\ last.status = 200
           /\ last.resp.raw =
                  Suffix(stream[Get(n)], Min(Len(stream[Get(n)]), MAX_BUFFER_SIZE))
           /\ last.resp.alive = FALSE
           /\ last.resp.exitCode # {}
           /\ last.resp.exitCode = firstExit[Get(n)][1]

\* C6: a name leaves the registry only through a successful close request
\* for that name or through shutdown; data and exit events, write, resize,
\* clear, snapshot and list requests, failed requests and observer events
\* leave the registry as it is.
C6_OnlyCloseOrShutdownRemoves ==
    [][/\ \A n \in Names :
              Present(n) /\ ~Present(n)' =>
                  \/ last'.op = "close" /\ last'.name = n /\ last'.status = 200
                  \/ last'.op = "cleanup"
       /\ \/ last'.op \in {"data", "exit", "write", "resize", "clear", "snapshot",
                         "list", "ws_connect", "ws_input", "ws_close", "ssh_ready"}
          \/ last'.status \in {400, 404, 500}
          => registry' = registry]_vars

\* The backend of a registered session has exited and the session is still
\* registered, beside a second registered session.
C6_Witness ==
    /\ last.op = "exit"
    /\ Present(last.name) /\ ~Entry(last.name).alive
    /\ Len(registry) = 2

\* C7: close of a registered name, live or exited, answers 200, kills the
\* backend and removes the name in the same step; close of an unknown name
\* answers 404 and changes nothing; while a name is not registered every
\* snapshot, write, resize, clear and close of it answers 404 and list does
\* not contain it; only a create request registers it again.
C7_CloseIsDestructive ==
    [][/\ \A n \in Names :
              last'.op = "close" /\ last'.name = n =>
                  IF Present(n)
                  THEN /\ last'.status = 200
                       /\ ~Present(n)'
                       /\ Terminated(backends'[Get(n)])
                       /\ last'.calls = {Call(Get(n), "kill", << >>)}
                  ELSE /\ last'.status = 404
                       /\ UNCHANGED <<registry, entries, backends>>
       /\ \A n \in Names :
              /\ ~Present(n)
              /\ last'.op \in {"snapshot", "write", "resize", "clear", "close"}
              /\ last'.name = n
              => last'.status = 404 /\ last'.resp.error = "terminal not found"
       /\ \A n \in Names :
              ~Present(n) /\ last'.op = "list" =>
                  \A i \in DOMAIN last'.resp.terminals : last'.resp.terminals[i] # n
       /\ \A n \in Names :
              ~Present(n) /\ Present(n)' =>
                  last'.op \in {"create", "create_resumed"}]_vars

\* A session was closed while its process was running, and a later snapshot
\* of its name was answered 404.
C7_Witness ==
    /\ last.op = "snapshot" /\ last.status = 404
    /\ \E b \in DOMAIN entries :
          entries[b].name = last.name /\ backends[b].st = "killed"

\* C8: a registered session that is not alive has an exit code, and one
\* that is alive has none.
C8_ExitCodeIffNotAlive ==
    \A n \in Names :
        Present(n) => (Entry(n).alive <=> Entry(n).exitCode = {})

\* C9: when construction fails the create request answers 500, the registry
\* and every session are as before and nothing is broadcast; a create
\* request for a name that is not registered, also after a failure,
\* constructs a backend again and registers the name, or fails again.
C9_FailedCreateLeavesNoTrace ==
    [][/\ last'.op \in {"create", "create_resumed"} /\ last'.status = 500 =>
              /\ last'.resp.error = "Failed to create terminal"
              /\ last'.bcast = << >>
              /\ UNCHANGED <<registry, entries>>
              /\ \A p \in pending' : backends'[p.b].st # "failed"
       /\ \A n \in Names :
              ~Present(n) /\ last'.op = "create" /\ last'.name = n =>
                  \/ last'.status = 500
                  \/ /\ last'.status = 200
                     /\ Len(backends') = Len(backends) + 1
                     /\ RegistryGet(registry', n) = Len(backends')]_vars

\* An ssh construction for a name failed and a later create request for the
\* same name constructed another backend and registered it.
C9_Witness ==
    /\ last.op \in {"create", "create_resumed"} /\ last.status = 200
    /\ \E b1 \in DOMAIN backends :
          /\ backends[b1].st = "failed"
          /\ backends[b1].name = last.name
          /\ Get(last.name) > b1

\* C10: once shutdown has run the registry is empty and every backend the
\* server has put into a session has been terminated.
C10_ShutdownLeavesNothing ==
    cleaningUp =>
        /\ registry = << >>
        /\ \A b \in DOMAIN entries : Terminated(backends[b])

\* The operations a client starts: requests and observer connections and
\* messages.
ClientOps ==
    {"create", "create_await", "list", "close", "write", "resize", "snapshot",
     "clear", "ws_connect", "ws_input"}

\* C11: the first cleanup runs as one step, in the order observers,
\* connections, backends, registry, server: after it no observer is
\* connected, kill was called on every backend that was registered and on
\* no other, the registry is empty and the flag is set; in no state does the
\* registry hold a backend on which kill was called, and once the flag is
\* set no request or observer event is served.
C11_ShutdownIsOneSweep ==
    [][/\ last'.op = "cleanup" /\ ~cleaningUp =>
              /\ last'.resp.sweep =
                     << "observers", "connections", "backends", "registry", "server" >>
              /\ cleaningUp' /\ wsClients' = {} /\ registry' = << >>
              /\ last'.calls = {Call(registry[i].id, "kill", << >>) :
                                   i \in 1..Len(registry)}
              /\ \A i \in 1..Len(registry) : Terminated(backends'[registry[i].id])
              /\ \A b \in DOMAIN backends :
                     (\A i \in 1..Len(registry) : registry[i].id # b) =>
                         backends'[b] = backends[b]
       /\ \A i \in 1..Len(registry') : backends'[registry'[i].id].st # "killed"
       /\ cleaningUp => last'.op \notin ClientOps]_vars

\* Shutdown ran while two sessions were registered, one with a running
\* backend and one whose backend had exited.
C11_Witness ==
    /\ last.op = "cleanup" /\ Cardinality(last.calls) = 2
    /\ \E c1, c2 \in last.calls :
          /\ backends[c1.b].st = "killed"
          /\ backends[c2.b].st \in {"exited", "closed"}

\* C12: every accepted write (a write request with string data, or an
\* observer's input message, for a registered live session) makes exactly
\* one backend write call, on that session's backend, with the data as
\* received; a write request then answers 200 with bytesWritten the length
\* of the data; no other step calls a backend's write.  (Each call is made
\* within the step that accepts the write, so the calls are in arrival
\* order.)
C12_WritesForwardedInOrder ==
    [][/\ \A n \in Names :
              /\ last'.op \in {"write", "ws_input"} /\ last'.name = n
              /\ Present(n) /\ Entry(n).alive
              /\ last'.req.isString
              => /\ last'.calls = {Call(Get(n), "write", last'.req.data)}
                 /\ last'.op = "write" =>
                        /\ last'.status = 200
                        /\ last'.resp.bytesWritten = Len(last'.req.data)
       /\ \A c \in last'.calls :
              c.method = "write" =>
                  /\ last'.op \in {"write", "ws_input"}
                  /\ Present(last'.name) /\ Entry(last'.name).alive
                  /\ c.b = Get(last'.name)]_vars

\* C17: the message broadcast when a backend exits on its own has type
\* "exited" and the session stays in the registry; a message of type
\* "closed" is broadcast only by a successful close request, which removes
\* the session.
C17_ExitToldApartFromClose ==
    [][/\ last'.op = "exit" =>
              /\ Len(last'.bcast) = 1
              /\ last'.bcast[1].type = "exited"
              /\ registry' = registry
       /\ \A i \in 1..Len(last'.bcast) :
              last'.bcast[i].type = "closed" =>
                  /\ last'.op = "close" /\ last'.status = 200
                  /\ Present(last'.name)
                  /\ RegistryGet(registry', last'.name) = 0]_vars

\* C18: in every state and for every string data, the empty string
\* included, an observer's input message for a name calls the backend as a
\* write request for that name and data does: one write of the data on the
\* session's backend when the name is registered and the session alive,
\* no call otherwise.
C18_ObserverInputIsWrite ==
    [][\A n \in Names :
          last'.op = "ws_input" /\ last'.name = n =>
              last'.calls =
                  IF Present(n) /\ MayWrite(Entry(n))
                  THEN {Call(Get(n), "write", last'.req.data)}
                  ELSE {}]_vars

\* t is the end of s.
IsSuffixOf(t, s) == Len(t) <= Len(s) /\ t = Suffix(s, Len(t))

\* C13: a data event of an entry appends its chunk at the end of the
\* entry's buffer (the oldest characters dropped beyond the bound) and
\* broadcasts one data message carrying that chunk under the entry's name,
\* which every connected observer hears after what it heard before under
\* that name; so at every moment the buffer is the end of the sequence the
\* backend emitted, in its order.
C13_DataInEmissionOrder ==
    [][/\ \A b \in DOMAIN entries :
              last'.op = "data" /\ stream'[b] # stream[b] =>
                  LET chunk == SubSeq(stream'[b], Len(stream[b]) + 1, Len(stream'[b]))
                      whole == entries[b].buffer \o chunk
                  IN  /\ stream'[b] = stream[b] \o chunk
                      /\ entries'[b].buffer =
                             Suffix(whole, Min(Len(whole), MAX_BUFFER_SIZE))
                      /\ last'.bcast = << DataMsg(entries[b].name, chunk) >>
                      /\ \A o \in wsClients :
                             heard'[o][entries[b].name] =
                                 heard[o][entries[b].name] \o chunk
       /\ \A b \in DOMAIN entries' : IsSuffixOf(entries'[b].buffer, stream'[b])]_vars

\* An observer connected to an ssh session has heard two different
\* characters, the second one with the latest data event.
C13_Witness ==
    /\ last.op = "data"
    /\ \E o \in wsClients, b \in DOMAIN entries :
          /\ backends[b].kind = "ssh"
          /\ Len(heard[o][entries[b].name]) >= 2
          /\ heard[o][entries[b].name][1] # heard[o][entries[b].name][2]
          /\ heard[o][entries[b].name] = entries[b].buffer

CountFor(msgs, name) ==
    Cardinality({i \in 1..Len(msgs) :
                    msgs[i].type = "data" /\ msgs[i].name = name})

\* The first message sent to a connecting observer lists every session of
\* the registry with its geometry, and the others are data messages.
ListsSessionsFirst(sent) ==
    /\ Len(sent) >= 1
    /\ sent[1].type = "terminals"
    /\ sent[1].terminals =
           [i \in 1..Len(registry) |->
               [name |-> registry[i].name, size |-> entries[registry[i].id].size]]
    /\ \A i \in 2..Len(sent) :
           /\ sent[i].type = "data"
           /\ Present(sent[i].name)
           /\ sent[i].data = Entry(sent[i].name).buffer

\* C15 as stated: on connect an observer is sent the list of sessions and
\* then exactly one data message with the full buffer for each live session
\* and none for a session that is not live.
C15_BufferPerLiveSession ==
    [][last'.op = "ws_connect" =>
          /\ ListsSessionsFirst(last'.sent)
          /\ \A n \in Names :
                 Present(n) =>
                     CountFor(last'.sent, n) = IF Entry(n).alive THEN 1 ELSE 0]_vars

\* C15 amended: on connect an observer is sent the list of sessions and
\* then exactly one data message with the full buffer for each session
\* whose buffer is not empty, live or not, and none for a session whose
\* buffer is empty.
C15_BufferPerNonEmptySession ==
    [][last'.op = "ws_connect" =>
          /\ ListsSessionsFirst(last'.sent)
          /\ \A n \in Names :
                 Present(n) =>
                     CountFor(last'.sent, n) =
                         IF Entry(n).buffer # << >> THEN 1 ELSE 0]_vars

\* An observer connected while two sessions were registered, a live one
\* with an empty buffer and an exited one with output: it was sent the list
\* and the exited session's buffer.
C15_Witness ==
    /\ last.op = "ws_connect" /\ Len(registry) = 2 /\ Len(last.sent) = 2
    /\ \E n1, n2 \in Names :
          /\ Present(n1) /\ Entry(n1).alive /\ Entry(n1).buffer = << >>
          /\ Present(n2) /\ ~Entry(n2).alive /\ last.sent[2].name = n2

\* C16: while an observer is connected, for every registered session that
\* was not trimmed since its creation or last clear, the data of the data
\* messages the observer was sent under the session's name (the buffer sent
\* on connection, then the chunks broadcast) concatenate to the session's
\* buffer.
C16_HeardIsBuffer ==
    \A o \in wsClients, n \in Names :
        Present(n) /\ Len(stream[Get(n)]) <= MAX_BUFFER_SIZE =>
            heard[o][n] = Entry(n).buffer

\* C19: a resize request with numeric cols and rows for a registered
\* session, live or exited and whatever backend.resize does, answers 200,
\* stores the geometry and broadcasts a resized message carrying it; a
\* resize of a name that is not registered answers 404; a snapshot reports
\* the stored geometry, which only a resize changes.
C19_ResizeStoresGeometry ==
    [][/\ \A n \in Names :
              last'.op = "resize" /\ last'.name = n =>
                  IF ~Present(n)
                  THEN last'.status = 404 /\ last'.resp.error = "terminal not found"
                  ELSE last'.req # {} =>
                           /\ last'.status = 200
                           /\ {entries'[Get(n)].size} = last'.req
                           /\ Len(last'.bcast) = 1
                           /\ last'.bcast[1].type = "resized"
                           /\ {last'.bcast[1].size} = last'.req
       /\ \A n \in Names :
              last'.op = "snapshot" /\ last'.name = n /\ Present(n) =>
                  last'.resp.size = Entry(n).size
       /\ \A b \in DOMAIN entries :
              entries'[b].size # entries[b].size => last'.op = "resize"]_vars

\* C20: in every snapshot the lines field is the last min(total, rows * 3)
\* lines of the plain text split on line breaks, total being the number of
\* lines, for every buffer and every stored geometry, rows = 0 included.
C20_LinesAreLastRowsTimesThree ==
    \A n \in Names :
        last.op = "snapshot" /\ last.name = n /\ last.status = 200 /\ Present(n) =>
            LET allLines == SplitLines(last.resp.text)
            IN  last.resp.lines =
                    Suffix(allLines, Min(Len(allLines), Entry(n).size.rows * 3))

\* C21: a snapshot request leaves the registry, every session's buffer,
\* geometry, liveness and exit code, every backend and the observers as they
\* are, calls no backend method and sends no message; for a registered name
\* it answers 200 with the fields read from the session, and a snapshot of
\* the state it leaves would return the same response.
C21_SnapshotIsPureRead ==
    [][\A n \in Names :
          last'.op = "snapshot" /\ last'.name = n =>
              /\ UNCHANGED <<registry, entries, backends, pending, wsClients, cleaningUp>>
              /\ last'.calls = {} /\ last'.bcast = << >> /\ last'.sent = << >>
              /\ Present(n) =>
                     /\ last'.status = 200
                     /\ last'.resp = SnapshotOf(Entry(n))
                     /\ last'.resp = SnapshotOf(entries'[RegistryGet(registry', n)])]_vars

\* A snapshot was taken of an exited session with output, beside a second
\* registered session.
C21_Witness ==
    /\ last.op = "snapshot" /\ last.status = 200
    /\ last.resp.raw # << >> /\ ~last.resp.alive /\ last.resp.exitCode = {1}
    /\ Len(registry) = 2

C23_NamesAreValid ==
    [][/\ \A i \in 1..Len(registry') :
              Len(registry'[i].name) \in 1..MAX_NAME_LENGTH
       /\ last'.op \in {"create_await", "create_resumed"} =>
              Len(last'.name) \in 1..MAX_NAME_LENGTH
       /\ /\ last'.op = "create"
          /\ last'.name = "" \/ Len(last'.name) > MAX_NAME_LENGTH
          => /\ last'.status = 400
             /\ last'.resp.error \in {"name is required and must be a string",
                                      "name must be 1-256 characters"}
             /\ last'.bcast = << >>
             /\ UNCHANGED <<registry, entries, backends, pending>>]_vars

\* A create request with a name of MAX_NAME_LENGTH + 1 characters was
\* refused while a session with a name of MAX_NAME_LENGTH characters is
\* registered.
C23_Witness ==
    /\ last.op = "create" /\ last.status = 400
    /\ Len(last.name) = MAX_NAME_LENGTH + 1
    /\ \E i \in 1..Len(registry) : Len(registry[i].name) = MAX_NAME_LENGTH

\* C29: a step that changes a session or its backend is a data event, an
\* exit event, or a write, resize, clear or close for the session's name; it
\* changes one session at most, for a request the one registered under the
\* name, and leaves every other session and backend as it is; no backend
\* is registered under two names.
C29_SessionsIsolated ==
    [][/\ \A b \in DOMAIN entries :
              entries'[b] # entries[b] \/ backends'[b] # backends[b] =>
                  /\ last'.op \in {"data", "exit", "write", "resize", "clear", "close"}
                  /\ entries[b].name = last'.name
                  /\ last'.op \in {"write", "resize", "clear", "close"} =>
                         b = Get(last'.name)
                  /\ \A c \in DOMAIN entries \ {b} :
                         entries'[c] = entries[c] /\ backends'[c] = backends[c]
       /\ \A i, j \in 1..Len(registry') :
              registry'[i].id = registry'[j].id => i = j]_vars

\* A data event reached one of two registered sessions that differ in
\* buffer, geometry and liveness.
C29_Witness ==
    /\ last.op = "data" /\ Len(registry) = 2
    /\ \E n1, n2 \in Names :
          /\ Present(n1) /\ Present(n2)
          /\ n1 = last.name
          /\ Entry(n1).buffer # Entry(n2).buffer
          /\ Entry(n1).size # Entry(n2).size
          /\ Entry(n1).alive /\ ~Entry(n2).alive

\* C24: a resize request for a registered session with cols or rows zero or
\* negative is answered 400, calls no backend method, broadcasts nothing
\* and leaves every session's stored geometry as it was.
C24_ResizeOutOfRangeRejected ==
    [][\A n \in Names :
          /\ last'.op = "resize" /\ last'.name = n /\ Present(n)
          /\ \E sz \in last'.req : sz.cols <= 0 \/ sz.rows <= 0
          => /\ last'.status = 400
             /\ last'.calls = {}
             /\ last'.bcast = << >>
             /\ UNCHANGED entries]_vars

\* C25: a request answered 400 (validation, or a write to an exited session)
\* or 404 (unknown name) leaves the registry, every session's buffer,
\* geometry, liveness and exit code, every backend and the observers as
\* they were, calls no backend method and sends no message.
C25_FailuresChangeNothing ==
    [][last'.status \in {400, 404} =>
          /\ UNCHANGED <<registry, entries, backends, pending, wsClients, cleaningUp>>
          /\ last'.calls = {}
          /\ last'.bcast = << >> /\ last'.sent = << >>]_vars

\* A write to an exited session that has output was refused.
C25_Witness ==
    /\ last.op = "write" /\ last.status = 400
    /\ last.resp.error = "terminal has exited"
    /\ Present(last.name)
    /\ Entry(last.name).buffer # << >> /\ Entry(last.name).exitCode # {}

\* C30: an ssh create answers 200 and registers its backend only in the
\* step in which the shell channel opens, after the connection was ready;
\* when the connection errors or the shell channel cannot be opened the
\* request answers 500, the registry and the sessions stay as they are,
\* and in the channel case the connection is ended; every ssh backend that
\* a session holds has had its shell channel opened.
C30_SshConstructedOrRejected ==
    [][/\ last'.op = "create_resumed" /\ last'.status = 200 =>
              \E b \in DOMAIN backends :
                  /\ backends[b].st = "shellreq" /\ backends'[b].st = "open"
                  /\ b \notin DOMAIN entries
                  /\ RegistryGet(registry', last'.name) = b
       /\ last'.op = "create_resumed" /\ last'.status = 500 =>
              /\ UNCHANGED <<registry, entries>>
              /\ last'.bcast = << >>
              /\ \E b \in DOMAIN backends :
                     /\ backends[b].st \in {"connecting", "shellreq"}
                     /\ backends'[b].st = "failed"
                     /\ last'.resp.cause = "Failed to start shell" =>
                            /\ backends[b].st = "shellreq"
                            /\ last'.calls = {Call(b, "end", << >>)}
       /\ \A b \in DOMAIN entries' :
              backends'[b].kind = "ssh" => backends'[b].st \in ShellOpened
       /\ \A b \in DOMAIN backends' :
              /\ backends'[b].kind = "ssh"
              /\ backends'[b].st \in {"connecting", "shellreq", "failed"}
              => /\ b \notin DOMAIN entries'
                 /\ \A i \in 1..Len(registry') : registry'[i].id # b]_vars

\* The shell channel of an ssh construction could not be opened while an
\* ssh session was registered under another name: the request was answered
\* 500 and its connection ended.
C30_Witness ==
    /\ last.op = "create_resumed" /\ last.status = 500
    /\ last.resp.cause = "Failed to start shell"
    /\ \E c \in last.calls : c.method = "end" /\ backends[c.b].st = "failed"
    /\ ~Present(last.name)
    /\ Len(registry) = 1

\* C26: key(keyName) on a registered live session, for a key name of the
\* table, sends one write whose data is the table's sequence, and the
\* backend's write is called once with exactly that sequence (enter is the
\* code 13, ctrl+c the code 3, up the codes 27 91 65); for a key name
\* outside the table key fails and no write request is sent.
C26_KeysReachBackendExactly ==
    [][/\ /\ last'.op = "write" /\ Present(last'.name)
          /\ "key" \in DOMAIN last'.req
          => /\ last'.req.key \in DOMAIN SpecialKeys
             /\ last'.req.isString
             /\ last'.req.data = SpecialKeys[last'.req.key]
             /\ last'.req.key = "enter" => last'.req.data = << 13 >>
             /\ last'.req.key = "ctrl+c" => last'.req.data = << 3 >>
             /\ last'.req.key = "up" => last'.req.data = << 27, 91, 65 >>
             /\ Entry(last'.name).alive =>
                    /\ last'.status = 200
                    /\ last'.calls = {Call(Get(last'.name), "write",
                                           SpecialKeys[last'.req.key])}
       /\ last'.op = "key" =>
              /\ last'.req.key \notin DOMAIN SpecialKeys
              /\ last'.resp.error = "Unknown key"
              /\ last'.calls = {}]_vars

\* C27: every step of a wait (its call, a turn of its loop, the serving of
\* its snapshot request, its return, the passing of its time) leaves the
\* registry, the sessions, the backends and the observers as they are,
\* calls no backend method and broadcasts nothing, and the only request it
\* makes is a snapshot; a wait sends at most timeout / interval snapshot
\* requests (rounded up); and a wait that was called returns.
C27_WaitsOnlyPoll ==
    /\ [][[waiter' EXCEPT !.appeared = waiter.appeared] # waiter =>
              /\ UNCHANGED <<registry, entries, backends, pending, wsClients, cleaningUp>>
              /\ \/ last' = last
                 \/ /\ last'.op \in {"wait_poll", "wait_done", "snapshot"}
                    /\ last'.calls = {}
                    /\ last'.bcast = << >> /\ last'.sent = << >>
              /\ waiter'.polls * PollInterval <= waiter'.timeout + PollInterval - 1]_vars
    /\ [](waiter.at \notin {"idle", "done"} => <>(waiter.at = "done"))

\* A waitForExit with the longest timeout has timed out after polling a
\* session that is still alive and has output.
C27_Witness ==
    /\ waiter.at = "done" /\ waiter.kind = "exit" /\ waiter.result = "undefined"
    /\ waiter.timeout = MaxTimeout /\ waiter.polls >= 1
    /\ Present(waiter.name)
    /\ Entry(waiter.name).alive /\ Entry(waiter.name).buffer # << >>

\* C28: when a waitForText has returned (its snapshot requests were all
\* answered), it returned true if a data event put the text in the
\* session's output at some moment after the call and before the timeout
\* elapsed, and it returned false only if none did.
C28_WaitForTextSeesText ==
    waiter.at = "done" /\ waiter.kind = "text" /\ waiter.result # "error" =>
        /\ waiter.appeared => waiter.result = "true"
        /\ waiter.result = "false" => ~waiter.appeared

\* C31: write called on an ssh backend whose shell channel has closed makes
\* no call on the channel; while the channel is open it writes the data to
\* it.
C31_SshWriteAfterCloseIsNoOp ==
    [][last'.op = "backend_write" =>
          \A c \in last'.calls :
              backends[c.b].kind = "ssh" => backends[c.b].st \notin ChannelClosed]_vars

\* C32: a close request for a registered session whose backend is already
\* dead answers 200, removes the name and announces the close, whether or
\* not kill() raises; the first run of the shutdown calls kill() on every
\* registered backend, leaves every one of them terminated, clears the
\* registry and closes the server, whichever of the kill() calls raise.
C32_DeadBackendNeverAnError ==
    [][/\ \A n \in Names :
              /\ last'.op = "close" /\ last'.name = n
              /\ Present(n) /\ Dead(backends[Get(n)])
              => /\ last'.status = 200
                 /\ ~Present(n)'
                 /\ last'.bcast = << [type |-> "closed", name |-> n] >>
       /\ last'.op = "cleanup" /\ ~cleaningUp =>
              /\ last'.calls = {Call(b, "kill", << >>) : b \in RegisteredIds}
              /\ \A b \in RegisteredIds : Terminated(backends'[b])
              /\ registry' = << >>
              /\ last'.resp.sweep = Sweep]_vars

\* The shutdown swept two sessions; kill() raised on the one that had
\* exited, and the other, still running, was killed.
C32_Witness ==
    /\ last.op = "cleanup" /\ last.req # {}
    /\ registry = << >>
    /\ \E c, d \in last.calls :
          /\ c.b \in last.req /\ d.b \notin last.req
          /\ backends[d.b].st = "killed"

\* The fields of a plain snapshot.
PlainFields == {"text", "raw", "lines", "size", "alive", "exitCode"}

\* C33: a snapshot of a registered session answers 200 in every format,
\* also when the rendering raises; its text, raw, lines, size, alive and
\* exitCode fields are those of the plain snapshot; it has an svg field
\* exactly when the svg format was requested and the rendering returned,
\* and then the field is the picture of the buffer.
C33_SvgOnlyOnRequest ==
    [][last'.op = "snapshot" /\ Present(last'.name) =>
          /\ last'.status = 200
          /\ \A f \in PlainFields : last'.resp[f] = SnapshotOf(Entry(last'.name))[f]
          /\ "svg" \in DOMAIN last'.resp <=>
                 last'.req.format = "svg" /\ last'.req.rendered
          /\ "svg" \in DOMAIN last'.resp =>
                 last'.resp.svg = Rasterize(Entry(last'.name).buffer,
                                            Entry(last'.name).size.rows)
          /\ UNCHANGED <<registry, entries, backends>>]_vars

\* The svg snapshot of an exited session with an escape sequence in its
\* buffer was asked for, the rendering raised, and the snapshot was
\* answered without the picture.
C33_Witness ==
    /\ last.op = "snapshot" /\ last.status = 200
    /\ last.req.format = "svg" /\ ~last.req.rendered
    /\ "svg" \notin DOMAIN last.resp
    /\ \E i \in DOMAIN last.resp.raw : last.resp.raw[i] = EscapeSequence
    /\ ~last.resp.alive /\ last.resp.exitCode = {1}

\* The create request that constructs ssh backend b is still awaiting
\* SshPtyBackend.create.
Awaiting(b) == \E p \in pending : p.b = b

\* C34: every ssh construction settles: a create request that awaits
\* SshPtyBackend.create is eventually resumed, by the resolution or by the
\* rejection of the promise, under every sequence of connection events.
C34_SshConstructionSettles ==
    \A b \in BackendIds : Awaiting(b) ~> ~Awaiting(b)

\* C35: once the exit callback of a session has run, no later step runs it
\* again: the recorded exit code stays as it is and no further exit
\* notification is broadcast for the session.
C35_ExitTakesEffectOnce ==
    [][\A b \in DOMAIN entries :
          firstExit[b] # << >> =>
              /\ entries'[b].exitCode = entries[b].exitCode
              /\ ~(last'.op = "exit" /\ backends'[b] # backends[b])]_vars

\* C36: every entry is made alive, and an entry that is not alive never
\* becomes alive again; a data or exit event, a write, resize, clear or
\* snapshot request, or a create request answered from the registry, for
\* the name of a session that is not alive leaves the name with the same
\* entry, not alive.
C36_LivenessIsMonotonic ==
    [][/\ \A b \in DOMAIN entries' :
              IF b \in DOMAIN entries
              THEN ~entries[b].alive => ~entries'[b].alive
              ELSE entries'[b].alive
       /\ \A n \in Names :
              /\ Present(n) /\ ~Entry(n).alive
              /\ last'.name = n
              /\ last'.op \in {"data", "exit", "write", "resize", "clear",
                                "snapshot", "create"}
              => /\ RegistryGet(registry', n) = Get(n)
                 /\ ~entries'[Get(n)].alive]_vars

\* A create request for the name of a session whose ssh channel and
\* connection have closed was answered from the registry, and the session
\* is still not alive.
C36_Witness ==
    /\ last.op = "create" /\ last.status = 200 /\ last.bcast = << >>
    /\ Present(last.name)
    /\ ~Entry(last.name).alive
    /\ backends[Get(last.name)].st = "closed"

\* C37: once a session has been closed (its backend was killed and its
\* entry is no longer the one registered), a data or exit callback of its
\* backend sends no message to any observer.
C37_NoMessagesAfterClose ==
    [][\A b \in DOMAIN entries :
          /\ b \notin RegisteredIds /\ Terminated(backends[b])
          /\ \/ last'.op = "data" /\ stream'[b] # stream[b]
             \/ last'.op = "exit" /\ backends'[b] # backends[b]
          => last'.to = {}]_vars

\* C38: a run of cleanup() after the first one has started calls no backend
\* method, leaves the registry, the sessions, the backends, the suspended
\* requests and the observers as they are, and does not close the server
\* again; the flag stays set.
C38_ShutdownIsIdempotent ==
    [][last'.op = "cleanup" /\ cleaningUp =>
          /\ last'.calls = {}
          /\ "sweep" \notin DOMAIN last'.resp
          /\ UNCHANGED <<registry, entries, backends, pending, wsClients,
                         cleaningUp>>]_vars

\* cleanup() ran again while a session registered after the first run was
\* in the registry with its backend running.
C38_Witness ==
    /\ last.op = "cleanup" /\ "sweep" \notin DOMAIN last.resp
    /\ cleaningUp
    /\ \E b \in RegisteredIds : backends[b].st = "open"

\* C39: a call of the client's terminal for a registered name is handled
\* for that name: it is answered neither 404 nor 500, and the handler has
\* looked up the name under which the session was stored.
C39_NamesAddressTheirSession ==
    [][\A n \in DOMAIN NameCodes, op \in PathOps :
          Present(n) /\ ClientCall(op, n) =>
              /\ last'.name = n
              /\ last'.status \notin {404, 500}]_vars

====
